---- MODULE Spec2Model ----
(***************************************************************************)
(* Liquidation auction engine of afp-agents: one LiquidatingAccountContext *)
(* (src/liquidation/service.py), the bid strategies it is handed           *)
(* (src/liquidation/bid.py), the Position value object                     *)
(* (src/liquidation/model.py) and the chain the context talks to.          *)
(*                                                                         *)
(* Every method of the context is one action.  A method that can stop      *)
(* half-way (a provider error, a fatal check) is the same action with the  *)
(* place it stops at drawn as an input; the fields written before that     *)
(* place keep their new values, as in the Python code.                     *)
(*                                                                         *)
(* service.py calls strategy.construct_bids(self.positions) and uses the   *)
(* result as the list of bids; bid.py declares construct_bids(mae_initial, *)
(* positions) -> (ok, bids).  The model joins the two at the bid list:     *)
(* mae_initial is an input of the call, the bids are the second component. *)
(*                                                                         *)
(* Spec lets a caller invoke the methods of one context in any order;      *)
(* SpecMain is main() of src/liquidation/__main__.py scanning its list of  *)
(* accounts, one statement of the loop per action; SpecBids and SpecWait   *)
(* apply construct_bids and the arithmetic of wait_time_for to every input *)
(* of the bounds.  Decimal values are exact fractions.                     *)
(***************************************************************************)
EXTENDS Integers, Sequences, FiniteSets, TLC

\* ------------------------------------------------------------------ bounds
MaxPos == 2          \* positions the account holds on chain
MaxCtxPos == 2       \* cap on the length of the context's positions list
MaxSent == 3         \* cap on the transactions one run sends
MaxAccounts == 2     \* accounts liquidatable_accounts() hands to main()
MaxBlock == 6        \* highest block number a wait-time computation is given
MaxActive == 3       \* active accounts of a list whose every make-up is tried
MaxRuns == 2         \* runs of the process that are followed one after another
MaxHolders == 3      \* holders of a product the subquery reports
MaxMutualized == 2   \* mutualization transactions that are followed
MaxProducts == 2     \* products the subquery lists as past their FSP time
MaxClosed == 2       \* closeout transactions that are followed
TokenDecimals == 1   \* decimals() of the collateral token
AuctionDuration == 2 \* auction_duration the context is constructed with, in blocks

\* ------------------------------------------------------------ value domains
NoBids == <<>>
PositionIds == 1..MaxPos

\* Step enum
REQUEST_LIQUIDATION == "REQUEST_LIQUIDATION"
BID_AUCTION == "BID_AUCTION"

\* afp.bindings.Side as used by the strategies
SideBID == "BID"
SideASK == "ASK"

\* ------------------------------------------------------- exact decimals
\* Decimal values are kept as fractions [n, d] with d > 0.
Abs(x) == IF x < 0 THEN -x ELSE x
RECURSIVE GCD(_, _)
GCD(a, b) == IF b = 0 THEN a ELSE GCD(b, a % b)
Rat(n, d) == LET g == GCD(Abs(n), d) IN [n |-> n \div g, d |-> d \div g]
RInt(i) == Rat(i, 1)
RAdd(a, b) == Rat(a.n * b.d + b.n * a.d, a.d * b.d)
RSub(a, b) == Rat(a.n * b.d - b.n * a.d, a.d * b.d)
RMul(a, b) == Rat(a.n * b.n, a.d * b.d)
RIsZero(a) == a.n = 0
\* a / b for b # 0, keeping the denominator positive
RDiv(a, b) == IF b.n > 0 THEN Rat(a.n * b.d, a.d * b.n)
                         ELSE Rat(-(a.n * b.d), a.d * (-b.n))
RLess(a, b) == a.n * b.d < b.n * a.d
RFloor(a) == a.n \div a.d
RCeil(a) == -((-a.n) \div a.d)
Pow10(k) == 10 ^ k

\* ------------------------------------------------------------- Position
\* Position.__init__: the chain's position data plus mark price, tick size
\* and point value (already divided by 10^decimals).
Position(id, quantity, mark_price, tick_size, point_value) ==
    [position_id |-> id, quantity |-> quantity, mark_price |-> mark_price,
     tick_size |-> tick_size, point_value |-> point_value]

notional_at_price(p, price) ==
    RDiv(RMul(RInt(price * Abs(p.quantity)), p.point_value), RInt(Pow10(p.tick_size)))

notional_at_mark(p) == notional_at_price(p, p.mark_price)

\* Position.dmae: the equity removed by a bid at bid_price
position_dmae(p, bid_price) ==
    IF p.quantity > 0
      THEN RSub(notional_at_mark(p), notional_at_price(p, bid_price))
      ELSE RSub(notional_at_price(p, bid_price), notional_at_mark(p))

\* ------------------------------------------------------------ strategies
\* A strategy object: its class, its percent_mae (a fraction) and its
\* position_validator, given as the set of position ids it accepts.
MarkPriceKind == "FullLiquidationMarkPriceStrategy"
PercentMAEKind == "FullLiquidationPercentMAEStrategy"
OrderedKind == "OrderedPercentMAEStrategy"
Strategy(kind, percent_mae, listed) ==
    [kind |-> kind, percent_mae |-> percent_mae, listed |-> listed]

NoError == "none"
Constructed(error, bids) == [error |-> error, ok |-> error = NoError, bids |-> bids]

position_validator(strategy, position_id) == position_id \in strategy.listed

BidData(product_id, quantity, price, side) ==
    [product_id |-> product_id, quantity |-> quantity, price |-> price, side |-> side]

\* variant: every bid is a BID
SideOf_always_bid(p) == SideBID

SideOf(p) == IF p.quantity > 0 THEN SideBID ELSE SideASK

\* the positions the loops of construct_bids do not skip, in list order
ValidPositions(strategy, positions) ==
    SelectSeq(positions, LAMBDA p : position_validator(strategy, p.position_id))

\* variant: the bid carries the signed quantity of the position
FullLiquidationMarkPriceStrategy_construct_bids_signed(strategy, mae_initial, positions) ==
    LET v == ValidPositions(strategy, positions)
    IN Constructed(NoError,
         [i \in 1..Len(v) |->
            BidData(v[i].position_id, v[i].quantity, v[i].mark_price, SideOf(v[i]))])

FullLiquidationMarkPriceStrategy_construct_bids(strategy, mae_initial, positions) ==
    LET v == ValidPositions(strategy, positions)
    IN Constructed(NoError,
         [i \in 1..Len(v) |->
            BidData(v[i].position_id, Abs(v[i].quantity), v[i].mark_price, SideOf(v[i]))])

RECURSIVE SumNotional(_, _)
\* sum of notional_at_mark over the positions of v on one side (long or not)
SumNotional(v, long) ==
    IF v = <<>> THEN RInt(0)
    ELSE LET p == Head(v)
             rest == SumNotional(Tail(v), long)
         IN IF (p.quantity > 0) = long THEN RAdd(notional_at_mark(p), rest) ELSE rest

\* variant: the whole initial equity is the target
TargetDmae_all_equity(strategy, mae_initial) == RInt(mae_initial)

\* mae_initial * percent_mae, the equity the bids are to remove
TargetDmae(strategy, mae_initial) == RMul(RInt(mae_initial), strategy.percent_mae)

percent_dmark(strategy, mae_initial, sum_long, sum_short) ==
    RDiv(TargetDmae(strategy, mae_initial), RAdd(sum_long, sum_short))

Clamped(strategy, mae_initial, sum_long, sum_short) ==
    RLess(RInt(1), percent_dmark(strategy, mae_initial, sum_long, sum_short))

percent_dmark_long(strategy, mae_initial, sum_long, sum_short) ==
    IF Clamped(strategy, mae_initial, sum_long, sum_short)
      THEN RInt(1)
      ELSE percent_dmark(strategy, mae_initial, sum_long, sum_short)

\* variant: the short side keeps the common discount when the long side is clamped
percent_dmark_short_common(strategy, mae_initial, sum_long, sum_short) ==
    percent_dmark(strategy, mae_initial, sum_long, sum_short)

percent_dmark_short(strategy, mae_initial, sum_long, sum_short) ==
    IF Clamped(strategy, mae_initial, sum_long, sum_short)
      THEN RDiv(RSub(TargetDmae(strategy, mae_initial), sum_long), sum_short)
      ELSE percent_dmark(strategy, mae_initial, sum_long, sum_short)

\* variant: long prices are rounded up and short prices down
bid_price_rounded_to_mark(p, dlong, dshort) ==
    IF p.quantity > 0
      THEN RCeil(RMul(RInt(p.mark_price), RSub(RInt(1), dlong)))
      ELSE RFloor(RMul(RInt(p.mark_price), RAdd(RInt(1), dshort)))

\* variant: the discount is added for a long and taken off for a short
bid_price_premium(p, dlong, dshort) ==
    IF p.quantity > 0
      THEN RFloor(RMul(RInt(p.mark_price), RAdd(RInt(1), dlong)))
      ELSE RCeil(RMul(RInt(p.mark_price), RSub(RInt(1), dshort)))

bid_price(p, dlong, dshort) ==
    IF p.quantity > 0
      THEN RFloor(RMul(RInt(p.mark_price), RSub(RInt(1), dlong)))
      ELSE RCeil(RMul(RInt(p.mark_price), RAdd(RInt(1), dshort)))

\* variant: the mark price of every position is tested, accepted or not
FullLiquidationPercentMAEStrategy_construct_bids_marks_of_all(strategy, mae_initial, positions) ==
    LET v == ValidPositions(strategy, positions)
        sum_long == SumNotional(v, TRUE)
        sum_short == SumNotional(v, FALSE)
    IN IF \E i \in 1..Len(positions) : positions[i].mark_price = 0
         THEN Constructed("RuntimeError", NoBids)
       ELSE IF RIsZero(RAdd(sum_long, sum_short))
         THEN Constructed("ArithmeticError", NoBids)
       ELSE IF Clamped(strategy, mae_initial, sum_long, sum_short) /\ RIsZero(sum_short)
         THEN Constructed("ArithmeticError", NoBids)
       ELSE LET dlong == percent_dmark_long(strategy, mae_initial, sum_long, sum_short)
                dshort == percent_dmark_short(strategy, mae_initial, sum_long, sum_short)
            IN Constructed(NoError,
                 [i \in 1..Len(v) |->
                    BidData(v[i].position_id, Abs(v[i].quantity),
                            bid_price(v[i], dlong, dshort), SideOf(v[i]))])

\* variant: with no short side to carry the rest, the shorts get no discount
FullLiquidationPercentMAEStrategy_construct_bids_no_short_side(strategy, mae_initial, positions) ==
    LET v == ValidPositions(strategy, positions)
        sum_long == SumNotional(v, TRUE)
        sum_short == SumNotional(v, FALSE)
    IN IF \E i \in 1..Len(v) : v[i].mark_price = 0
         THEN Constructed("RuntimeError", NoBids)
       ELSE IF RIsZero(RAdd(sum_long, sum_short))
         THEN Constructed("ArithmeticError", NoBids)
       ELSE LET dlong == percent_dmark_long(strategy, mae_initial, sum_long, sum_short)
                dshort == IF RIsZero(sum_short) THEN RInt(0)
                          ELSE percent_dmark_short(strategy, mae_initial, sum_long, sum_short)
            IN Constructed(NoError,
                 [i \in 1..Len(v) |->
                    BidData(v[i].position_id, Abs(v[i].quantity),
                            bid_price(v[i], dlong, dshort), SideOf(v[i]))])

\* variant: the two sums run over every position, accepted or not
FullLiquidationPercentMAEStrategy_construct_bids_sums_of_all(strategy, mae_initial, positions) ==
    LET v == ValidPositions(strategy, positions)
        sum_long == SumNotional(positions, TRUE)
        sum_short == SumNotional(positions, FALSE)
    IN IF \E i \in 1..Len(v) : v[i].mark_price = 0
         THEN Constructed("RuntimeError", NoBids)
       ELSE IF RIsZero(RAdd(sum_long, sum_short))
         THEN Constructed("ArithmeticError", NoBids)
       ELSE IF Clamped(strategy, mae_initial, sum_long, sum_short) /\ RIsZero(sum_short)
         THEN Constructed("ArithmeticError", NoBids)
       ELSE LET dlong == percent_dmark_long(strategy, mae_initial, sum_long, sum_short)
                dshort == percent_dmark_short(strategy, mae_initial, sum_long, sum_short)
            IN Constructed(NoError,
                 [i \in 1..Len(v) |->
                    BidData(v[i].position_id, Abs(v[i].quantity),
                            bid_price(v[i], dlong, dshort), SideOf(v[i]))])

FullLiquidationPercentMAEStrategy_construct_bids(strategy, mae_initial, positions) ==
    LET v == ValidPositions(strategy, positions)
        sum_long == SumNotional(v, TRUE)
        sum_short == SumNotional(v, FALSE)
    IN IF \E i \in 1..Len(v) : v[i].mark_price = 0
         THEN Constructed("RuntimeError", NoBids)          \* zero mark price
       ELSE IF RIsZero(RAdd(sum_long, sum_short))
         THEN Constructed("ArithmeticError", NoBids)       \* Decimal division by zero
       ELSE IF Clamped(strategy, mae_initial, sum_long, sum_short) /\ RIsZero(sum_short)
         THEN Constructed("ArithmeticError", NoBids)       \* Decimal division by zero
       ELSE LET dlong == percent_dmark_long(strategy, mae_initial, sum_long, sum_short)
                dshort == percent_dmark_short(strategy, mae_initial, sum_long, sum_short)
            IN Constructed(NoError,
                 [i \in 1..Len(v) |->
                    BidData(v[i].position_id, Abs(v[i].quantity),
                            bid_price(v[i], dlong, dshort), SideOf(v[i]))])

OrderedPercentMAEStrategy_construct_bids(strategy, mae_initial, positions) ==
    Constructed("NotImplementedError", NoBids)

\* BidStrategy.construct_bids, dispatched on the strategy's class
construct_bids(strategy, mae_initial, positions) ==
    CASE strategy.kind = MarkPriceKind ->
           FullLiquidationMarkPriceStrategy_construct_bids(strategy, mae_initial, positions)
      [] strategy.kind = PercentMAEKind ->
           FullLiquidationPercentMAEStrategy_construct_bids(strategy, mae_initial, positions)
      [] OTHER -> OrderedPercentMAEStrategy_construct_bids(strategy, mae_initial, positions)

\* ------------------------------------------------------------------ state
VARIABLES
    positions,            \* LiquidatingAccountContext.positions
    is_liquidating,       \* .is_liquidating (meaningful once assigned)
    auction_data,         \* .auction_data (meaningful once assigned)
    collateral_decimals,  \* .collateral_decimals (meaningful once assigned)
    assigned,             \* the attributes above that have been assigned so far
    transaction_steps,    \* .transaction_steps
    chain_positions,      \* what MarginAccount.positions / position_data,
                          \* ClearingDiamond.valuation and ProductRegistry return
    chain_liquidating,    \* what ClearingDiamond.is_liquidating returns
    chain_auction,        \* what ClearingDiamond.auction_data returns
    sent,                 \* the transactions this run has sent, oldest first
    last,                 \* the most recent step: the call made and how it ended
    bid_input,            \* arguments of a construct_bids call made on its own
    bid_output,           \* what that call produced
    wait_input,           \* arguments of a wait-time computation made on its own
    wait_output,          \* what that computation produced
    main,                 \* where main() stands in its scan of the accounts
    service,              \* a LiquidationService, its last call, and what the
                          \* subquery and the chain hold for it
    runs,                 \* the number of the run of the process, and the runs
                          \* that sent a bid for the auction in progress on chain
    bankruptcy,           \* the bankruptcy agent: its service, the contexts it
                          \* made, and what the subquery and the chain hold
    closeout              \* the closeout agent: its service, the contexts it
                          \* made, and what the subquery and the chain hold

vars == <<positions, is_liquidating, auction_data, collateral_decimals, assigned,
          transaction_steps, chain_positions, chain_liquidating, chain_auction,
          sent, last, bid_input, bid_output, wait_input, wait_output, main,
          service, runs, bankruptcy, closeout>>

\* afp.bindings.AuctionData
AuctionData(start_block) ==
    [start_block |-> start_block, mmu_at_initiation |-> 20, mae_at_initiation |-> 10]
StartBlocks == {1, 2}
AuctionSnapshots == {AuctionData(b) : b \in StartBlocks}
NoAuction == AuctionData(0)

TransactionStep(step, tx_hash) == [step |-> step, tx_hash |-> tx_hash]

\* What the chain holds for position i of the account: odd positions are
\* long 10, even ones short 5, marked at 100 * i, tick size 0, point value 1.
ChainPosition(i) ==
    Position(i, IF i % 2 = 1 THEN 10 ELSE -5, 100 * i, 0, Pow10(TokenDecimals))
ChainPositionLists == {[i \in 1..n |-> ChainPosition(i)] : n \in 0..MaxPos}

\* the inputs of a call
Validators == {{}, PositionIds}
Strategies ==
    {Strategy(MarkPriceKind, Rat(0, 1), l) : l \in Validators}
      \cup {Strategy(PercentMAEKind, Rat(1, 100), l) : l \in Validators}
      \cup {Strategy(OrderedKind, Rat(1, 100), {})}
MaeInitials == {1000}
\* the answers of mae(), mmu() and mae_and_mmu_after_batch_trade()
Simulation(mae_after, mmu_after) ==
    [mae_before |-> 2, mmu_before |-> 2, mae_after |-> mae_after, mmu_after |-> mmu_after]
Simulations == {Simulation(2, 2), Simulation(1, 1), Simulation(3, 1), Simulation(1, 3)}

\* main(): the step it is at, the account it is processing (by its place in
\* the list of accounts), and its local variables dmae, dmmu, blocks_to_wait.
\* recorded holds the transaction_steps of the contexts the loop has left,
\* which stay in the list of accounts; log is the history of the run: the
\* transactions submitted and confirmed and the bids skipped, in order.
\* For wait_for_blocks: height is the number of the latest block of the chain,
\* start_block, target_block and current_block are the locals of the call,
\* and read_failed tells that a read of the height raised during the call.
Main(pc, account, accounts) ==
    [pc |-> pc, account |-> account, accounts |-> accounts,
     dmae |-> RInt(0), dmmu |-> RInt(0), blocks_to_wait |-> 0,
     recorded |-> <<>>, log |-> <<>>,
     height |-> 0, start_block |-> 0, target_block |-> 0, current_block |-> 0,
     read_failed |-> FALSE]
LogEntry(account, step, event) == [account |-> account, step |-> step, event |-> event]
MainIdle == Main("idle", 0, 0)

\* the whole state as one record, so that a method is a function on it
State ==
    [positions |-> positions, is_liquidating |-> is_liquidating,
     auction_data |-> auction_data, collateral_decimals |-> collateral_decimals,
     assigned |-> assigned, transaction_steps |-> transaction_steps,
     chain_positions |-> chain_positions, chain_liquidating |-> chain_liquidating,
     chain_auction |-> chain_auction, sent |-> sent, last |-> last, main |-> main]

BecomesContext(s) ==
    /\ positions' = s.positions
    /\ is_liquidating' = s.is_liquidating
    /\ auction_data' = s.auction_data
    /\ collateral_decimals' = s.collateral_decimals
    /\ assigned' = s.assigned
    /\ transaction_steps' = s.transaction_steps
    /\ chain_positions' = s.chain_positions
    /\ chain_liquidating' = s.chain_liquidating
    /\ chain_auction' = s.chain_auction
    /\ sent' = s.sent
    /\ last' = s.last
    /\ main' = s.main
    /\ UNCHANGED <<bid_input, bid_output, wait_input, wait_output, service,
                   bankruptcy, closeout>>

Becomes(s) == BecomesContext(s) /\ UNCHANGED runs

\* the record of a step that is about to run
Call(op) ==
    [op |-> op, outcome |-> "none", ret |-> FALSE, error |-> NoError, events |-> <<>>,
     constructed |-> FALSE, bids |-> NoBids, checked |-> NoBids, settlements |-> <<>>, valued |-> <<>>,
     submitted |-> NoBids, dmae |-> RInt(0), dmmu |-> RInt(0), tx_hash |-> 0,
     args |-> <<>>, block |-> 0, blocks |-> 0]

Begin(s, op) == [s EXCEPT !.last = Call(op)]
Log(s, e) == [s EXCEPT !.last.events = Append(@, e)]
Return(s, v) == [s EXCEPT !.last.outcome = "return", !.last.ret = v]
Raise(s, err) == [s EXCEPT !.last.outcome = "raise", !.last.error = err]

\* LiquidatingAccountContext.__init__
Constructed_context(s) ==
    [s EXCEPT !.positions = <<>>, !.transaction_steps = <<>>,
              !.is_liquidating = FALSE, !.auction_data = NoAuction,
              !.collateral_decimals = 0, !.assigned = {}]

\* ---------------------------------------------------------------- populate
\* Position(position_data, mark_price, tick_size, point_value / 10^decimals)
Loaded(cp, decimals) ==
    Position(cp.position_id, cp.quantity, cp.mark_price, cp.tick_size,
             Rat(cp.point_value, Pow10(decimals)))

\* the positions list after the loop has handled the first k chain positions
populate_positions(old, chain, k, decimals) ==
    old \o [i \in 1..k |-> Loaded(chain[i], decimals)]

\* stop = <<place, k>>: the provider call that fails ("none": none does);
\* for place "position", the call fails while loading chain position k.
populate(s0, stop) ==
    LET s == Begin(s0, "populate")
        n == Len(s.chain_positions)
        k == IF stop[1] = "position" THEN stop[2] - 1 ELSE n
        s1 == [s EXCEPT !.positions =
                 populate_positions(@, s.chain_positions, k, TokenDecimals)]
        s2 == [s1 EXCEPT !.is_liquidating = s.chain_liquidating,
                         !.assigned = @ \cup {"is_liquidating"}]
        s3 == IF s2.is_liquidating
                THEN [s2 EXCEPT !.auction_data = s.chain_auction,
                                !.assigned = @ \cup {"auction_data"}]
                ELSE s2
        s4 == [s3 EXCEPT !.collateral_decimals = TokenDecimals,
                         !.assigned = @ \cup {"collateral_decimals"}]
    IN CASE stop[1] = "decimals" -> Raise(s, "ProviderError")
         [] stop[1] = "position" -> Raise(s1, "ProviderError")
         [] stop[1] = "is_liquidating" -> Raise(s1, "ProviderError")
         [] stop[1] = "auction_data" /\ s2.is_liquidating -> Raise(s2, "ProviderError")
         [] OTHER -> Return(s4, FALSE)

PopulateStops ==
    {<<p, 0>> : p \in {"none", "decimals", "is_liquidating", "auction_data"}}
      \cup {<<"position", k>> : k \in 1..Len(chain_positions)}

Populate ==
    /\ Len(positions) + Len(chain_positions) <= MaxCtxPos
    /\ \E stop \in PopulateStops :
         /\ stop[1] = "auction_data" => chain_liquidating
         /\ Becomes(populate(State, stop))

\* -------------------------------------------------- is_transaction_submitted
\* variant: the recorded steps are never consulted
is_transaction_submitted_never(steps, step) == FALSE

is_transaction_submitted(steps, step) ==
    \E i \in 1..Len(steps) : steps[i].step = step

\* -------------------------------------------------------------- _check_bids
\* variant: the settlement carries the quantity of the bid as it is
Settlement_unsigned(bid) ==
    [position_id |-> bid.product_id, quantity |-> bid.quantity, price |-> bid.price]

Settlement(bid) ==
    [position_id |-> bid.product_id,
     quantity |-> IF bid.side = SideBID THEN -bid.quantity ELSE bid.quantity,
     price |-> bid.price]

\* variant: only the MAE delta is compared
check_deltas_mae_only(sim, decimals) ==
    LET dmae == Rat(sim.mae_before - sim.mae_after, Pow10(decimals))
        dmmu == Rat(sim.mmu_before - sim.mmu_after, Pow10(decimals))
    IN [dmae |-> dmae, dmmu |-> dmmu,
        error |-> IF dmae.n < 0 THEN "RuntimeError" ELSE NoError]

\* The two deltas and the error of the final comparisons.
check_deltas(sim, decimals) ==
    LET dmae == Rat(sim.mae_before - sim.mae_after, Pow10(decimals))
        dmmu == Rat(sim.mmu_before - sim.mmu_after, Pow10(decimals))
    IN [dmae |-> dmae, dmmu |-> dmmu,
        error |-> IF dmae.n < 0 \/ dmmu.n < 0 THEN "RuntimeError" ELSE NoError]

\* sim: what mae(), mmu() and mae_and_mmu_after_batch_trade() answer;
\* stop = "check": one of the provider calls of _check_bids fails.
\* Events: "check" when _check_bids is entered, "compare" when the two deltas
\* have been computed (kept in last.dmae, last.dmmu).
\* The result ends "raise", or is left running ("none").
check_bids(s0, bids, sim, stop) ==
    LET s == Log([s0 EXCEPT !.last.checked = bids,
                            !.last.settlements = [i \in 1..Len(bids) |-> Settlement(bids[i])],
                            !.last.valued = [i \in 1..Len(bids) |-> bids[i].product_id]],
                 "check")
        d == check_deltas(sim, s.collateral_decimals)
        s1 == Log([s EXCEPT !.last.dmae = d.dmae, !.last.dmmu = d.dmmu], "compare")
    IN IF stop = "check" THEN Raise(s, "ProviderError")
       ELSE IF "collateral_decimals" \notin s.assigned THEN Raise(s, "AttributeError")
       ELSE IF d.error # NoError THEN Raise(s1, d.error)
       ELSE s1

\* -------------------------------------------------------- sending and waiting
NextHash(s) == Len(s.sent) + 1

\* fn.transact(): the transaction is sent and its hash returned
Transact(s, step, bids) ==
    Log([s EXCEPT !.sent = Append(@, [step |-> step, tx_hash |-> NextHash(s)]),
                  !.last.tx_hash = NextHash(s),
                  !.last.submitted = bids],
        "submit")

\* variant: the step is not kept
Record_not_kept(s, step) == Log(s, "record")

\* self.transaction_steps.append(TransactionStep(step, tx_hash))
Record(s, step) ==
    Log([s EXCEPT !.transaction_steps = Append(@, TransactionStep(step, s.last.tx_hash))],
        "record")

\* wait_for_transaction_receipt returns: the request has taken effect on chain
ConfirmRequest(s, snapshot) ==
    Log([s EXCEPT !.chain_liquidating = TRUE, !.chain_auction = snapshot], "confirm")

ConfirmBid(s) == Log(s, "confirm")

\* --------------------------------------------------------- start_liquidation
\* variant: the is_liquidating flag is not consulted
start_skipped_step_only(s) ==
    is_transaction_submitted(s.transaction_steps, REQUEST_LIQUIDATION)

\* lines 130-135: the two early returns
start_skipped(s) ==
    \/ s.is_liquidating
    \/ is_transaction_submitted(s.transaction_steps, REQUEST_LIQUIDATION)

\* variant: the step is recorded once the receipt has arrived
start_request_confirm_first(s, stop, snapshot) ==
    IF stop = "transact" THEN Raise(s, "ProviderError")
    ELSE LET s1 == Transact(s, REQUEST_LIQUIDATION, NoBids)
             s2 == [Record(ConfirmRequest(s1, snapshot), REQUEST_LIQUIDATION) EXCEPT
                       !.is_liquidating = TRUE, !.assigned = @ \cup {"is_liquidating"}]
             s3 == [s2 EXCEPT !.auction_data = s2.chain_auction,
                              !.assigned = @ \cup {"auction_data"}]
         IN IF stop = "receipt" THEN Raise(s1, "ProviderError")
            ELSE IF stop = "auction_data" THEN Raise(s2, "ProviderError")
            ELSE Return(s3, TRUE)

\* variant: the auction data is not read again after the receipt
start_request_no_refresh(s, stop, snapshot) ==
    IF stop = "transact" THEN Raise(s, "ProviderError")
    ELSE LET s1 == Record(Transact(s, REQUEST_LIQUIDATION, NoBids), REQUEST_LIQUIDATION)
             s2 == [ConfirmRequest(s1, snapshot) EXCEPT
                       !.is_liquidating = TRUE, !.assigned = @ \cup {"is_liquidating"}]
         IN IF stop = "receipt" THEN Raise(s1, "ProviderError")
            ELSE IF stop = "auction_data" THEN Raise(s2, "ProviderError")
            ELSE Return(s2, TRUE)

\* variant: the receipt of the request is not waited for
start_request_no_wait(s, stop, snapshot) ==
    IF stop = "transact" THEN Raise(s, "ProviderError")
    ELSE LET s1 == Record(Transact(s, REQUEST_LIQUIDATION, NoBids), REQUEST_LIQUIDATION)
             s2 == [s1 EXCEPT !.is_liquidating = TRUE,
                              !.assigned = @ \cup {"is_liquidating"}]
             s3 == [s2 EXCEPT !.auction_data = s2.chain_auction,
                              !.assigned = @ \cup {"auction_data"}]
         IN IF stop = "auction_data" THEN Raise(s2, "ProviderError")
            ELSE Return(s3, TRUE)

\* lines 136-147: send the request, record it, wait, mark liquidating, refresh
start_request(s, stop, snapshot) ==
    IF stop = "transact" THEN Raise(s, "ProviderError")
    ELSE LET s1 == Record(Transact(s, REQUEST_LIQUIDATION, NoBids), REQUEST_LIQUIDATION)
             s2 == [ConfirmRequest(s1, snapshot) EXCEPT
                       !.is_liquidating = TRUE, !.assigned = @ \cup {"is_liquidating"}]
             s3 == [s2 EXCEPT !.auction_data = s2.chain_auction,
                              !.assigned = @ \cup {"auction_data"}]
         IN IF stop = "receipt" THEN Raise(s1, "ProviderError")
            ELSE IF stop = "auction_data" THEN Raise(s2, "ProviderError")
            ELSE Return(s3, TRUE)

start_liquidation(s0, strategy, mae_initial, sim, stop, snapshot) ==
    LET s == Begin(s0, "start_liquidation")
        cb == construct_bids(strategy, mae_initial, s.positions)
        s1 == Log([s EXCEPT !.last.bids = cb.bids,
                            !.last.constructed = (cb.error = NoError)], "construct")
        s2 == check_bids(s1, cb.bids, sim, stop)
    IN IF cb.error # NoError THEN Raise(s1, cb.error)
       ELSE IF s2.last.outcome = "raise" THEN s2
       ELSE IF "is_liquidating" \notin s2.assigned THEN Raise(s2, "AttributeError")
       ELSE IF start_skipped(s2) THEN Return(s2, FALSE)
       ELSE start_request(s2, stop, snapshot)

\* ----------------------------------------------------------- bid_liquidation
\* variant: the recorded BID_AUCTION step is not consulted
bid_skipped_flag_only(s) == ~s.is_liquidating

\* variant: the is_liquidating flag is not consulted
bid_skipped_step_only(s) == is_transaction_submitted(s.transaction_steps, BID_AUCTION)

\* lines 159-163: the two early returns
bid_skipped(s) ==
    \/ ~s.is_liquidating
    \/ is_transaction_submitted(s.transaction_steps, BID_AUCTION)

\* variant: the step is recorded once the receipt has arrived
bid_submit_confirm_first(s, bids, sim, stop) ==
    LET s1 == check_bids(s, bids, sim, stop)
        s2 == Transact(s1, BID_AUCTION, bids)
    IN IF s1.last.outcome = "raise" THEN s1
       ELSE IF stop = "transact" THEN Raise(s1, "ProviderError")
       ELSE IF stop = "receipt" THEN Raise(s2, "ProviderError")
       ELSE Return(Record(ConfirmBid(s2), BID_AUCTION), TRUE)

\* lines 171-187: check the bids, send them, record the step, wait
bid_submit(s, bids, sim, stop) ==
    LET s1 == check_bids(s, bids, sim, stop)
        s2 == Record(Transact(s1, BID_AUCTION, bids), BID_AUCTION)
    IN IF s1.last.outcome = "raise" THEN s1
       ELSE IF stop = "transact" THEN Raise(s1, "ProviderError")
       ELSE IF stop = "receipt" THEN Raise(s2, "ProviderError")
       ELSE Return(ConfirmBid(s2), TRUE)

\* variant: an empty list of bids is submitted like any other
bid_liquidation_no_empty_check(s0, strategy, mae_initial, sim, stop) ==
    LET s == Begin(s0, "bid_liquidation")
        cb == construct_bids(strategy, mae_initial, s.positions)
        s1 == Log([s EXCEPT !.last.bids = cb.bids,
                            !.last.constructed = (cb.error = NoError)], "construct")
    IN IF "is_liquidating" \notin s.assigned THEN Raise(s, "AttributeError")
       ELSE IF bid_skipped(s) THEN Return(s, FALSE)
       ELSE IF cb.error # NoError THEN Raise(s1, cb.error)
       ELSE bid_submit(s1, cb.bids, sim, stop)

bid_liquidation(s0, strategy, mae_initial, sim, stop) ==
    LET s == Begin(s0, "bid_liquidation")
        cb == construct_bids(strategy, mae_initial, s.positions)
        s1 == Log([s EXCEPT !.last.bids = cb.bids,
                            !.last.constructed = (cb.error = NoError)], "construct")
    IN IF "is_liquidating" \notin s.assigned THEN Raise(s, "AttributeError")
       ELSE IF bid_skipped(s) THEN Return(s, FALSE)
       ELSE IF cb.error # NoError THEN Raise(s1, cb.error)
       ELSE IF Len(cb.bids) = 0 THEN Return(s1, FALSE)
       ELSE bid_submit(s1, cb.bids, sim, stop)

\* ------------------------------------------------------------- wait_time_for
\* how a wait-time computation ends: the error raised, or the blocks returned
Waited(error, blocks) == [error |-> error, blocks |-> blocks]

\* lines 245-249: t = (dmae * tau * mmu_0) / (dmmu * mae_0), rounded up
blocks_to_wait(auction, duration, dmae, dmmu) ==
    RCeil(RDiv(RMul(RMul(dmae, RInt(duration)), RInt(auction.mmu_at_initiation)),
               RMul(dmmu, RInt(auction.mae_at_initiation))))

\* variant: a negative remainder is returned as it is
blocks_left_unclamped(auction, duration, dmae, dmmu, elapsed) ==
    blocks_to_wait(auction, duration, dmae, dmmu) - elapsed

\* lines 251-255: the blocks already elapsed are taken off, not below zero
blocks_left(auction, duration, dmae, dmmu, elapsed) ==
    LET left == blocks_to_wait(auction, duration, dmae, dmmu) - elapsed
    IN IF left < 0 THEN 0 ELSE left

\* variant: the closed auction window is not looked at
wait_time_no_window(auction, duration, dmae, dmmu, current_block) ==
    LET elapsed == current_block - auction.start_block
    IN IF RIsZero(RMul(dmmu, RInt(auction.mae_at_initiation)))
         THEN Waited("ArithmeticError", 0)
       ELSE Waited(NoError, blocks_left(auction, duration, dmae, dmmu, elapsed))

\* lines 242-255, current_block being what get_block("latest") answered
wait_time(auction, duration, dmae, dmmu, current_block) ==
    LET elapsed == current_block - auction.start_block
    IN IF elapsed > duration THEN Waited(NoError, 0)
       ELSE IF RIsZero(RMul(dmmu, RInt(auction.mae_at_initiation)))
         THEN Waited("ArithmeticError", 0)     \* Decimal division by zero
       ELSE Waited(NoError, blocks_left(auction, duration, dmae, dmmu, elapsed))

\* stop = "block": get_block fails.  No assignment stores None in
\* auction_data, so the test of line 239 is false whenever the attribute
\* exists; reading it on a context that never assigned it is an
\* AttributeError.
wait_time_for(s0, dmae, dmmu, current_block, stop) ==
    LET s == [Begin(s0, "wait_time_for") EXCEPT !.last.args = <<dmae, dmmu>>]
        s1 == [s EXCEPT !.last.block = current_block]
        w == wait_time(s.auction_data, AuctionDuration, dmae, dmmu, current_block)
    IN IF "auction_data" \notin s.assigned THEN Raise(s, "AttributeError")
       ELSE IF stop = "block" THEN Raise(s, "ProviderError")
       ELSE IF w.error # NoError THEN Raise(s1, w.error)
       ELSE Return([s1 EXCEPT !.last.blocks = w.blocks], FALSE)

\* ------------------------------------------------------------------ actions
StartStops == {"none", "check", "transact", "receipt", "auction_data"}
BidStops == {"none", "check", "transact", "receipt"}

Rejected(sim) == check_deltas(sim, 0).error # NoError

\* Inputs a call does not read are not varied: the simulation when a provider
\* call of _check_bids fails, a failure after _check_bids when it rejects the
\* bids or the call returns early, the new auction when no request confirms.
StartInputs ==
    {in \in [strategy : Strategies, mae_initial : MaeInitials, sim : Simulations,
             stop : StartStops, snapshot : AuctionSnapshots] :
        /\ in.stop = "check" => in.sim = Simulation(2, 2)
        /\ Rejected(in.sim) \/ start_skipped(State) => in.stop \in {"none", "check"}
        /\ in.stop \notin {"none", "auction_data"} \/ Rejected(in.sim) \/ start_skipped(State)
             => in.snapshot = AuctionData(1)}

BidInputs ==
    {in \in [strategy : Strategies, mae_initial : MaeInitials, sim : Simulations,
             stop : BidStops] :
        /\ in.stop = "check" => in.sim = Simulation(2, 2)
        /\ Rejected(in.sim) => in.stop = "none"
        /\ bid_skipped(State) =>
             /\ in.stop = "none"
             /\ in.sim = Simulation(2, 2)
             /\ in.strategy = Strategy(OrderedKind, Rat(1, 100), {})}

StartLiquidation ==
    /\ Len(sent) < MaxSent
    /\ \E in \in StartInputs :
         Becomes(start_liquidation(State, in.strategy, in.mae_initial, in.sim,
                                   in.stop, in.snapshot))

BidLiquidation ==
    /\ Len(sent) < MaxSent
    /\ \E in \in BidInputs :
         Becomes(bid_liquidation(State, in.strategy, in.mae_initial, in.sim, in.stop))

\* the block numbers get_block("latest") answers: one inside the auction
\* window of every start block, one after it
CurrentBlocks == {2, 3 + AuctionDuration}
WaitStops == {"none", "block"}

\* Inputs a call does not read are not varied.
WaitTimeForInputs ==
    {in \in [dmae : {RInt(1)}, dmmu : {RInt(0), RInt(1)}, block : CurrentBlocks,
             stop : WaitStops] :
        /\ "auction_data" \notin assigned => in.stop = "none"
        /\ "auction_data" \notin assigned \/ in.stop = "block"
             => in.dmmu = RInt(1) /\ in.block = 2}

WaitTimeFor ==
    \E in \in WaitTimeForInputs :
      Becomes(wait_time_for(State, in.dmae, in.dmmu, in.block, in.stop))

\* variant: the recorded steps are kept from one run to the next
restart_keeping_steps(s) ==
    [Constructed_context(Begin(s, "restart")) EXCEPT
       !.sent = <<>>, !.transaction_steps = s.transaction_steps]

\* the process stops and a new run builds a fresh context for the account
restart(s) == [Constructed_context(Begin(s, "restart")) EXCEPT !.sent = <<>>]

Restart ==
    /\ last.op # "restart"
    /\ Becomes(restart(State))

\* the auction on the account ends
auction_ends(s) == [Begin(s, "chain") EXCEPT !.chain_liquidating = FALSE]

ChainAuctionEnds ==
    /\ chain_liquidating
    /\ Becomes(auction_ends(State))

\* the account's last position is closed on chain
ChainPositionCloses ==
    /\ chain_positions # <<>>
    /\ Becomes([Begin(State, "chain") EXCEPT
                  !.chain_positions = SubSeq(@, 1, Len(@) - 1)])

\* ------------------------------------------------------- one run after another
\* the runs of the process are numbered from 1; auction_bids lists, oldest
\* first, the runs whose bid transaction went to the auction that is in
\* progress on chain
Runs(run, auction_bids) == [run |-> run, auction_bids |-> auction_bids]
NoRuns == Runs(1, <<>>)

\* the call has sent a transaction
HasSubmitted(r) == \E i \in 1..Len(r.last.events) : r.last.events[i] = "submit"

RunBidLiquidation ==
    /\ Len(sent) < MaxSent
    /\ \E in \in BidInputs :
         LET r == bid_liquidation(State, in.strategy, in.mae_initial, in.sim, in.stop)
         IN /\ BecomesContext(r)
            /\ runs' = IF HasSubmitted(r) /\ chain_liquidating
                         THEN [runs EXCEPT !.auction_bids = Append(@, runs.run)]
                         ELSE runs

RunRestart ==
    /\ last.op # "restart"
    /\ runs.run < MaxRuns
    /\ BecomesContext(restart(State))
    /\ runs' = [runs EXCEPT !.run = @ + 1]

RunAuctionEnds ==
    /\ chain_liquidating
    /\ BecomesContext(auction_ends(State))
    /\ runs' = [runs EXCEPT !.auction_bids = <<>>]

\* ------------------------------------------------------------------ main()
\* DMAE = Decimal("0.01")
DMAE == Rat(1, 100)
\* strategy = FullLiquidationPercentMAEStrategy(DMAE, reseller.validate_position),
\* listed being the position ids validate_position accepts
MainStrategy(listed) == Strategy(PercentMAEKind, DMAE, listed)

\* what the chain holds for an account when main() comes to it
\* the lists above, and a single position whose mark price is zero
MainChainPositionLists ==
    ChainPositionLists \cup {<<Position(1, 10, 0, 0, Pow10(TokenDecimals))>>}
ChainStates ==
    {[positions |-> ps, liquidating |-> l,
      auction |-> IF l THEN AuctionData(1) ELSE NoAuction] :
        ps \in MainChainPositionLists, l \in BOOLEAN}

\* the for loop takes the next context of the list, as __init__ left it, or
\* ends; chain is what the chain holds for that next account
NextAccount(s, chain) ==
    IF s.main.account < s.main.accounts
      THEN [Constructed_context(s) EXCEPT
              !.chain_positions = chain.positions,
              !.chain_liquidating = chain.liquidating,
              !.chain_auction = chain.auction,
              !.main = [Main("populate", s.main.account + 1, s.main.accounts) EXCEPT
                          !.recorded = Append(s.main.recorded, s.transaction_steps),
                          !.log = s.main.log]]
      ELSE [s EXCEPT !.main.pc = "done"]

\* variant: the exception is caught and the loop goes on with the next account
Abort_next_account(s) ==
    NextAccount(s, [positions |-> <<>>, liquidating |-> FALSE, auction |-> NoAuction])

\* an uncaught exception leaves the for loop and main()
Abort(s) == [s EXCEPT !.main.pc = "aborted"]

\* the call of a method of the context is over: what it submitted and saw
\* confirmed goes to the history of the run
Logged(r, step) ==
    LET es == SelectSeq(r.last.events, LAMBDA e : e \in {"submit", "confirm"})
    IN [r EXCEPT !.main.log =
          @ \o [i \in 1..Len(es) |-> LogEntry(r.main.account, step, es[i])]]

\* line 58: account.populate()
main_populate(s, stop) ==
    LET r == populate(s, stop)
    IN IF r.last.outcome = "raise" THEN Abort(r) ELSE [r EXCEPT !.main.pc = "start"]

\* line 63: liquidation_started, dmae, dmmu = account.start_liquidation(strategy)
main_start_liquidation(s, listed, mae_initial, sim, stop, snapshot) ==
    LET r == Logged(start_liquidation(s, MainStrategy(listed), mae_initial, sim,
                                      stop, snapshot),
                    REQUEST_LIQUIDATION)
    IN IF r.last.outcome = "raise" THEN Abort(r)
       ELSE [r EXCEPT !.main.pc = "check",
                      !.main.dmae = r.last.dmae, !.main.dmmu = r.last.dmmu]

\* lines 69-111: the block and the auction data are read for the log, the
\* bids are built again and handed to mae_check_on_bid; verdict is its answer
\* <<mae_check_failed, mae_over_mmu_exceeded>>.  stop names the provider call
\* that fails: "block", "offered" (max_mae_offered) or "check".
\* last.args keeps the verdict; a skipped bid is entered in the history.
main_mae_check_skip(s, listed, mae_initial, stop, verdict, chain, skips) ==
    LET s0 == Begin(s, "mae_check")
        cb == construct_bids(MainStrategy(listed), mae_initial, s.positions)
        s1 == Log([s0 EXCEPT !.last.bids = cb.bids,
                             !.last.constructed = (cb.error = NoError)], "construct")
        s2 == Log([s1 EXCEPT !.last.checked = cb.bids, !.last.args = verdict], "check")
        s3 == [s2 EXCEPT !.main.log =
                 Append(@, LogEntry(s.main.account, BID_AUCTION, "skip"))]
    IN IF stop = "block" THEN Abort(Raise(s0, "ProviderError"))
       ELSE IF "auction_data" \notin s.assigned THEN Abort(Raise(s0, "AttributeError"))
       ELSE IF stop = "offered" THEN Abort(Raise(s0, "ProviderError"))
       ELSE IF cb.error # NoError THEN Abort(Raise(s1, cb.error))
       ELSE IF stop = "check" THEN Abort(Raise(s1, "ProviderError"))
       ELSE IF skips THEN NextAccount(Return(s3, FALSE), chain)
       ELSE [Return(s2, TRUE) EXCEPT !.main.pc = "wait"]

\* variant: the verdict is logged and the bid is sent all the same
main_mae_check_bids_anyway(s, listed, mae_initial, stop, verdict, chain) ==
    main_mae_check_skip(s, listed, mae_initial, stop, verdict, chain, FALSE)

main_mae_check(s, listed, mae_initial, stop, verdict, chain) ==
    main_mae_check_skip(s, listed, mae_initial, stop, verdict, chain,
                        verdict[1] \/ verdict[2])

\* variant: the failure of wait_time_for is taken as no wait at all
main_wait_time_for_no_abort(s, current_block, stop) ==
    LET r == wait_time_for(s, s.main.dmae, s.main.dmmu, current_block, stop)
    IN [r EXCEPT !.main.pc = "sleep", !.main.blocks_to_wait = r.last.blocks]

\* line 112: blocks_to_wait = account.wait_time_for(dmae, dmmu)
main_wait_time_for(s, current_block, stop) ==
    LET r == wait_time_for(s, s.main.dmae, s.main.dmmu, current_block, stop)
    IN IF r.last.outcome = "raise" THEN Abort(r)
       ELSE [r EXCEPT !.main.pc = "sleep", !.main.blocks_to_wait = r.last.blocks]

\* utils.wait_for_blocks up to its loop: the first get_block is outside the
\* try (stop = "block"); height is the number of the latest block
wait_for_blocks(s, num_blocks, height, stop) ==
    LET s0 == [Begin(s, "wait_for_blocks") EXCEPT !.last.blocks = num_blocks]
    IN IF stop = "block" THEN Abort(Raise(s0, "ProviderError"))
       ELSE [s0 EXCEPT
               !.main.pc = "poll", !.main.height = height,
               !.main.start_block = height,
               !.main.target_block = height + num_blocks,
               !.main.current_block = 0, !.main.read_failed = FALSE]

\* a variant that waits blocks_to_wait blocks and no extra one
main_wait_for_blocks_no_extra(s, height, stop) ==
    wait_for_blocks(s, s.main.blocks_to_wait, height, stop)
\* line 119: wait_for_blocks(w3, blocks_to_wait + 1)
main_wait_for_blocks(s, height, stop) ==
    wait_for_blocks(s, s.main.blocks_to_wait + 1, height, stop)

\* one turn of the loop of wait_for_blocks: the height is read and the loop
\* is left when it has reached the target; a read that raises (stop =
\* "block") is reported and the loop goes on after the poll interval
main_poll(s, stop) ==
    LET read == [s EXCEPT !.main.current_block = s.main.height]
    IN IF stop = "block" THEN [s EXCEPT !.main.read_failed = TRUE]
       ELSE IF read.main.current_block >= s.main.target_block
       THEN [Return(read, FALSE) EXCEPT !.main.pc = "bid"]
       ELSE read

\* line 120: account.bid_liquidation(strategy), the last statement of the loop
main_bid_liquidation(s, listed, mae_initial, sim, stop, chain) ==
    LET r == Logged(bid_liquidation(s, MainStrategy(listed), mae_initial, sim, stop),
                    BID_AUCTION)
    IN IF r.last.outcome = "raise" THEN Abort(r) ELSE NextAccount(r, chain)

\* the answers of the simulation main() meets: those above, and one that
\* lowers the MAE and leaves the MMU as it was
MainSimulations == Simulations \cup {Simulation(1, 2)}

\* chain is read only when the loop moves on to a next account
NoChain == [positions |-> <<>>, liquidating |-> FALSE, auction |-> NoAuction]
NextChains(moves) ==
    IF moves /\ main.account < main.accounts THEN ChainStates ELSE {NoChain}

MainPopulate ==
    /\ main.pc = "populate"
    /\ \E stop \in PopulateStops :
         /\ stop[1] = "auction_data" => chain_liquidating
         /\ Becomes(main_populate(State, stop))

MainStartInputs ==
    {in \in [listed : Validators, mae_initial : MaeInitials, sim : MainSimulations,
             stop : StartStops, snapshot : AuctionSnapshots] :
        /\ in.stop = "check" => in.sim = Simulation(2, 2)
        /\ Rejected(in.sim) \/ start_skipped(State) => in.stop \in {"none", "check"}
        /\ in.stop \notin {"none", "auction_data"} \/ Rejected(in.sim) \/ start_skipped(State)
             => in.snapshot = AuctionData(1)}

MainStartLiquidation ==
    /\ main.pc = "start"
    /\ \E in \in MainStartInputs :
         Becomes(main_start_liquidation(State, in.listed, in.mae_initial, in.sim,
                                        in.stop, in.snapshot))

MainMaeCheck ==
    /\ main.pc = "check"
    /\ \E listed \in Validators, mae_initial \in MaeInitials,
          stop \in {"none", "block", "offered", "check"},
          verdict \in {<<FALSE, FALSE>>, <<TRUE, FALSE>>, <<FALSE, TRUE>>} :
         /\ stop # "none" => verdict = <<FALSE, FALSE>>
         /\ \E chain \in NextChains(stop = "none" /\ verdict # <<FALSE, FALSE>>) :
              Becomes(main_mae_check(State, listed, mae_initial, stop, verdict, chain))

MainWaitTimeFor ==
    /\ main.pc = "wait"
    /\ \E current_block \in CurrentBlocks, stop \in WaitStops :
         /\ stop = "block" => current_block = 2
         /\ Becomes(main_wait_time_for(State, current_block, stop))

\* the chain has not gone back since wait_time_for read its height
MainWaitForBlocks ==
    /\ main.pc = "sleep"
    /\ \E stop \in WaitStops, height \in {last.block, last.block + 1} :
         /\ stop = "block" => height = last.block
         /\ Becomes(main_wait_for_blocks(State, height, stop))

\* a read of the height that answers
MainPollRead ==
    /\ main.pc = "poll"
    /\ Becomes(main_poll(State, "none"))

MainPoll ==
    \/ MainPollRead
    \/ /\ main.pc = "poll"
       /\ Becomes(main_poll(State, "block"))

\* the chain gets a block while main() waits; blocks past the one after the
\* target make no difference to the wait and are not followed
ChainMinesBlock ==
    /\ main.pc = "poll"
    /\ main.height <= main.target_block
    /\ Becomes([State EXCEPT !.main.height = @ + 1])

MainBidInputs ==
    {in \in [listed : Validators, mae_initial : MaeInitials, sim : MainSimulations,
             stop : BidStops] :
        /\ in.stop = "check" => in.sim = Simulation(2, 2)
        /\ Rejected(in.sim) => in.stop = "none"
        /\ bid_skipped(State) =>
             /\ in.stop = "none"
             /\ in.sim = Simulation(2, 2)
             /\ in.listed = {}}

MainBidLiquidation ==
    /\ main.pc = "bid"
    /\ \E in \in MainBidInputs :
         \E chain \in NextChains(TRUE) :
           Becomes(main_bid_liquidation(State, in.listed, in.mae_initial, in.sim,
                                        in.stop, chain))

\* ------------------------------------------------ wait time on its own
WaitAuctions ==
    {[AuctionData(b) EXCEPT !.mmu_at_initiation = u, !.mae_at_initiation = e] :
        b \in StartBlocks, u \in {0, 20}, e \in {-10, 0, 10}}
WaitDeltas == {Rat(-1, 1), RInt(0), Rat(1, 10), RInt(1), RInt(3)}
WaitInputs ==
    [auction : WaitAuctions, duration : {AuctionDuration, AuctionDuration + 1},
     dmae : WaitDeltas, dmmu : WaitDeltas, block : 1..MaxBlock]

NoWaitInput ==
    [auction |-> NoAuction, duration |-> 0, dmae |-> RInt(0), dmmu |-> RInt(0),
     block |-> 0]
NotWaited == [applied |-> FALSE, result |-> Waited(NoError, 0)]

\* lines 242-255 of wait_time_for, on a context whose auction data is loaded
WaitTime ==
    /\ ~wait_output.applied
    /\ wait_output' =
         [applied |-> TRUE,
          result |-> wait_time(wait_input.auction, wait_input.duration,
                               wait_input.dmae, wait_input.dmmu, wait_input.block)]
    /\ UNCHANGED <<positions, is_liquidating, auction_data, collateral_decimals,
                   assigned, transaction_steps, chain_positions, chain_liquidating,
                   chain_auction, sent, last, bid_input, bid_output, wait_input,
                   main, service, runs, bankruptcy, closeout>>

\* ------------------------------------------------ construct_bids on its own
MaxBidPos == 2       \* positions handed to a construct_bids call made on its own

ConstructPositions ==
    UNION {[1..n -> {Position(0, q, m, 0, RInt(1)) : q \in {-5, 10}, m \in {0, 100, 200}}]
             : n \in 0..MaxBidPos}
\* the position at place i of the list has id i
Numbered(ps) == [i \in 1..Len(ps) |-> [ps[i] EXCEPT !.position_id = i]]
ConstructStrategies ==
    {Strategy(MarkPriceKind, Rat(0, 1), l) : l \in SUBSET (1..MaxBidPos)}
      \cup {Strategy(PercentMAEKind, pm, l) :
              pm \in {Rat(1, 100), Rat(1, 10), Rat(3, 1)}, l \in SUBSET (1..MaxBidPos)}
      \cup {Strategy(OrderedKind, Rat(1, 100), {})}
ConstructInputs ==
    {[strategy |-> st, mae_initial |-> m, positions |-> Numbered(ps)] :
        st \in ConstructStrategies, m \in {0, 1000}, ps \in ConstructPositions}

NoInput ==
    [strategy |-> Strategy(OrderedKind, Rat(1, 100), {}), mae_initial |-> 0,
     positions |-> <<>>]
NotApplied == [applied |-> FALSE, result |-> Constructed(NoError, NoBids)]

\* strategy.construct_bids(mae_initial, positions)
Construct ==
    /\ ~bid_output.applied
    /\ bid_output' =
         [applied |-> TRUE,
          result |-> construct_bids(bid_input.strategy, bid_input.mae_initial,
                                    bid_input.positions)]
    /\ UNCHANGED <<positions, is_liquidating, auction_data, collateral_decimals,
                   assigned, transaction_steps, chain_positions, chain_liquidating,
                   chain_auction, sent, last, bid_input, wait_input, wait_output,
                   main, service, runs, bankruptcy, closeout>>

\* ------------------------------------------------------- LiquidationService
MAX_ACCOUNT_FETCH == 50

Min(a, b) == IF a < b THEN a ELSE b
RECURSIVE Concat(_)
Concat(seqs) == IF seqs = <<>> THEN <<>> ELSE Head(seqs) \o Concat(Tail(seqs))

\* subquery.model.Account; the margin account contract is that of the collateral
Collaterals == {"c1", "c2"}
Account(account_id, collateral_asset) ==
    [account_id |-> account_id, collateral_asset |-> collateral_asset,
     margin_account |-> <<"margin_account", collateral_asset>>]
\* afp.bindings.UserMarginAccountData, the fields read
UserMarginAccountData(mae, mmu) == [mae |-> mae, mmu |-> mmu]
\* afp.bindings.AuctionConfig
AuctionConfig(liquidation_duration, restoration_buffer) ==
    [liquidation_duration |-> liquidation_duration,
     restoration_buffer |-> restoration_buffer]
\* what LiquidatingAccountContext.__init__ is handed
Context(acct, duration, buffer) ==
    [account_id |-> acct.account_id, collateral_asset |-> acct.collateral_asset,
     margin_account |-> acct.margin_account, auction_duration |-> duration,
     restoration_buffer |-> buffer]

\* LiquidationService.__init__ on top of what the subquery (active) and the
\* chain (margin, the data of the account at the same place of active) hold;
\* the fields from op on describe the last call made
Service(active, margin) ==
    [active |-> active, margin |-> margin,
     cached |-> FALSE, liquidation_duration |-> 0, restoration_buffer |-> RInt(0),
     config_calls |-> 0,
     op |-> "init", outcome |-> "none", fetched |-> FALSE,
     config |-> AuctionConfig(0, 0), lookups |-> <<>>, contexts |-> <<>>]
NoService == Service(<<>>, <<>>)

\* the keys of the dict of group_by_collateral, in the order they were
\* inserted: a key is inserted at the first account that has it (line 377)
group_keys(accounts) ==
    LET firsts == {k \in 1..Len(accounts) :
                     \A j \in 1..(k - 1) :
                       accounts[j].collateral_asset # accounts[k].collateral_asset}
        nth(i) == CHOOSE k \in firsts : Cardinality({j \in firsts : j < k}) = i - 1
    IN [i \in 1..Cardinality(firsts) |-> accounts[nth(i)].collateral_asset]

\* the items of the dict, in order
group_by_collateral(accounts) ==
    LET keys == group_keys(accounts)
    IN [k \in 1..Len(keys) |->
          [collateral |-> keys[k],
           accounts |-> SelectSeq(accounts, LAMBDA a : a.collateral_asset = keys[k])]]

\* variant: a batch starts on the last account of the batch before it
batches_overlapping(accounts) ==
    [b \in 1..((Len(accounts) + MAX_ACCOUNT_FETCH - 1) \div MAX_ACCOUNT_FETCH) |->
       SubSeq(accounts, IF b = 1 THEN 1 ELSE (b - 1) * MAX_ACCOUNT_FETCH,
              Min(b * MAX_ACCOUNT_FETCH, Len(accounts)))]

\* line 341-342: accounts[i : i + MAX_ACCOUNT_FETCH] for i = 0, 50, 100, ...
batches(accounts) ==
    [b \in 1..((Len(accounts) + MAX_ACCOUNT_FETCH - 1) \div MAX_ACCOUNT_FETCH) |->
       SubSeq(accounts, (b - 1) * MAX_ACCOUNT_FETCH + 1,
              Min(b * MAX_ACCOUNT_FETCH, Len(accounts)))]

\* SystemViewer.user_margin_data_by_collateral_asset: the data the chain holds
\* for each account id asked for under that collateral asset, in the order asked
user_margin_data_by_collateral_asset(svc, collateral, ids) ==
    [i \in 1..Len(ids) |->
       IF \E k \in 1..Len(svc.active) :
            /\ svc.active[k].account_id = ids[i]
            /\ svc.active[k].collateral_asset = collateral
         THEN svc.margin[CHOOSE k \in 1..Len(svc.active) :
                           /\ svc.active[k].account_id = ids[i]
                           /\ svc.active[k].collateral_asset = collateral]
         ELSE UserMarginAccountData(0, 0)]

zip(a, b) == [i \in 1..Min(Len(a), Len(b)) |-> <<a[i], b[i]>>]

\* lines 339-348 for one collateral asset: the lookups made and the pairs added
group_details(svc, group) ==
    LET bs == batches(group.accounts)
        ids(b) == [i \in 1..Len(bs[b]) |-> bs[b][i].account_id]
    IN [lookups |-> [b \in 1..Len(bs) |->
                       [collateral |-> group.collateral, account_ids |-> ids(b)]],
        pairs |-> zip(group.accounts,
                      Concat([b \in 1..Len(bs) |->
                                user_margin_data_by_collateral_asset(
                                  svc, group.collateral, ids(b))]))]

\* variant: the pairs are put back in the order of the accounts handed in
fetch_account_details_in_order(svc, accounts) ==
    LET groups == group_by_collateral(accounts)
        details == [k \in 1..Len(groups) |-> group_details(svc, groups[k])]
        pairs == Concat([k \in 1..Len(groups) |-> details[k].pairs])
    IN [lookups |-> Concat([k \in 1..Len(groups) |-> details[k].lookups]),
        result |-> [i \in 1..Len(accounts) |->
                      pairs[CHOOSE j \in 1..Len(pairs) : pairs[j][1] = accounts[i]]]]

\* LiquidationService.fetch_account_details: the lookups it makes and its result
fetch_account_details(svc, accounts) ==
    LET groups == group_by_collateral(accounts)
        details == [k \in 1..Len(groups) |-> group_details(svc, groups[k])]
    IN [lookups |-> Concat([k \in 1..Len(groups) |-> details[k].lookups]),
        result |-> Concat([k \in 1..Len(groups) |-> details[k].pairs])]

\* variant: the configuration is fetched on every call
auction_config_uncached(svc, config) ==
    [svc EXCEPT !.cached = TRUE,
                !.liquidation_duration = config.liquidation_duration,
                !.restoration_buffer = Rat(config.restoration_buffer, 10000),
                !.config_calls = @ + 1,
                !.fetched = TRUE]

\* LiquidationService.auction_config, config being what the clearing contract
\* answers: the service after the call; its answer is the pair of its fields
auction_config(svc, config) ==
    IF svc.cached THEN svc
    ELSE [svc EXCEPT !.cached = TRUE,
                     !.liquidation_duration = config.liquidation_duration,
                     !.restoration_buffer = Rat(config.restoration_buffer, 10000),
                     !.config_calls = @ + 1,
                     !.fetched = TRUE]

\* a call of the service begins
ServiceCall(svc, op, config) ==
    [svc EXCEPT !.op = op, !.outcome = "none", !.fetched = FALSE, !.config = config,
                !.lookups = <<>>, !.contexts = <<>>]

\* variant: an account whose mae equals its mmu is liquidatable
is_liquidatable_or_equal(details) == details.mae <= details.mmu

\* lines 301-303: the account is kept unless mae >= mmu
is_liquidatable(details) == ~(details.mae >= details.mmu)

\* the loop of lines 295-329 over the first n pairs
liquidatable_loop(svc, pairs, n, config) ==
    LET kept == SelectSeq(SubSeq(pairs, 1, n), LAMBDA pr : is_liquidatable(pr[2]))
        svc1 == IF kept = <<>> THEN svc ELSE auction_config(svc, config)
    IN [svc1 EXCEPT !.contexts =
          [i \in 1..Len(kept) |->
             Context(kept[i][1], svc1.liquidation_duration, svc1.restoration_buffer)]]

\* LiquidationService.liquidatable_accounts.  stop names the provider call
\* that fails: "active" (active_accounts), "lookup" (a margin-data lookup),
\* "decimals_first" and "decimals_last" (decimals() for the first and for the
\* last pair), "config" (the first auction_config of the clearing contract).
liquidatable_accounts(svc0, config, stop) ==
    LET svc == ServiceCall(svc0, "liquidatable_accounts", config)
        fetched == fetch_account_details(svc, svc.active)
        svc1 == [svc EXCEPT !.lookups = fetched.lookups]
        pairs == fetched.result
        before_last == liquidatable_loop(svc1, pairs, Len(pairs) - 1, config)
    IN CASE stop = "active" -> [svc EXCEPT !.outcome = "raise"]
         [] stop = "lookup" -> [svc EXCEPT !.outcome = "raise"]
         [] stop = "decimals_first" -> [svc1 EXCEPT !.outcome = "raise"]
         [] stop = "config" -> [svc1 EXCEPT !.outcome = "raise"]
         [] stop = "decimals_last" ->
              [before_last EXCEPT !.outcome = "raise", !.contexts = <<>>]
         [] OTHER ->
              [liquidatable_loop(svc1, pairs, Len(pairs), config) EXCEPT
                 !.outcome = "return"]

\* the stops that can happen in the state the service is in
ServiceStops ==
    LET pairs == fetch_account_details(service, service.active).result
    IN {"none", "active"}
         \cup (IF service.active # <<>> THEN {"lookup"} ELSE {})
         \cup (IF pairs # <<>> THEN {"decimals_first"} ELSE {})
         \cup (IF Len(pairs) >= 2 THEN {"decimals_last"} ELSE {})
         \cup (IF ~service.cached /\ \E i \in 1..Len(pairs) : is_liquidatable(pairs[i][2])
                THEN {"config"} ELSE {})

\* what the clearing contract answers to auction_config()
AuctionConfigs == {AuctionConfig(100, 10), AuctionConfig(200, 25)}

Unchanged_but_service ==
    UNCHANGED <<positions, is_liquidating, auction_data, collateral_decimals,
                assigned, transaction_steps, chain_positions, chain_liquidating,
                chain_auction, sent, last, bid_input, bid_output, wait_input,
                wait_output, main, runs, bankruptcy, closeout>>

LiquidatableAccounts ==
    /\ \E config \in AuctionConfigs, stop \in ServiceStops :
         service' = liquidatable_accounts(service, config, stop)
    /\ Unchanged_but_service

\* ls.auction_config() called from outside; stop = "config": the contract
\* call fails, which only a service that has nothing cached can meet
AuctionConfigCall ==
    /\ \E config \in AuctionConfigs, stop \in {"none", "config"} :
         /\ stop = "config" => ~service.cached
         /\ service' =
              IF stop = "config"
                THEN [ServiceCall(service, "auction_config", config) EXCEPT
                        !.outcome = "raise"]
                ELSE [auction_config(ServiceCall(service, "auction_config", config),
                                     config) EXCEPT !.outcome = "return"]
    /\ Unchanged_but_service

\* the lists of active accounts: every list of up to MaxActive accounts, and
\* lists around one and two full batches, of one collateral asset or mixed;
\* the account at place i has id i
MarginData ==
    {UserMarginAccountData(1, 2), UserMarginAccountData(2, 2), UserMarginAccountData(3, 2)}
SmallServices ==
    UNION {{Service([i \in 1..n |-> Account(i, cs[i])], ms) :
              cs \in [1..n -> Collaterals], ms \in [1..n -> MarginData]} :
           n \in 0..MaxActive}
LargeServices ==
    {Service([i \in 1..n |-> Account(i, IF mixed /\ i % 3 = 0 THEN "c2" ELSE "c1")],
             [i \in 1..n |-> UserMarginAccountData(1 + (i % 3), 2)]) :
       n \in {MAX_ACCOUNT_FETCH, MAX_ACCOUNT_FETCH + 1, 2 * MAX_ACCOUNT_FETCH + 1},
       mixed \in BOOLEAN}
\* one owner holding a margin account under each collateral asset: the
\* subquery lists it once per margin account, under the same account id
OwnerServices ==
    {Service(<<Account(1, "c1"), Account(1, "c2")>>, ms) : ms \in [1..2 -> MarginData]}
Services == SmallServices \cup LargeServices \cup OwnerServices

\* ------------------------------------------------------------ fill_laas_for
\* one entry of AutSubquery.holders_of: an owner and its signed total
Holder(account, balance) == [account |-> account, balance |-> balance]

Reverse(s) == [i \in 1..Len(s) |-> s[Len(s) + 1 - i]]
Members(s) == {s[i] : i \in 1..Len(s)}

\* BankruptAccountContext.quantities: what the margin account answers for each
\* of the accounts, in their order
quantities(accounts, position_quantity) ==
    [i \in 1..Len(accounts) |-> position_quantity[accounts[i]]]

\* the sum of the quantities that have the sign of needed_quantity
RECURSIVE sum_same_direction(_, _)
sum_same_direction(qs, needed_quantity) ==
    IF qs = <<>> THEN 0
    ELSE (IF Head(qs) * needed_quantity > 0 THEN Head(qs) ELSE 0)
         + sum_same_direction(Tail(qs), needed_quantity)

\* the while loop of fill_laas_for; k holders have been looked at
RECURSIVE fill_loop(_, _, _, _, _)
fill_loop(needed_quantity, laas, contained_quantity, holders, k) ==
    IF Abs(contained_quantity) < Abs(needed_quantity) /\ k < Len(holders)
    THEN LET account == holders[k + 1].account
             balance == holders[k + 1].balance
         IN IF account \in Members(laas) \/ balance * needed_quantity < 0
            THEN fill_loop(needed_quantity, laas, contained_quantity, holders, k + 1)
            ELSE fill_loop(needed_quantity, Append(laas, account),
                           contained_quantity + balance, holders, k + 1)
    ELSE [laas |-> laas, contained_quantity |-> contained_quantity, k |-> k,
          holders |-> holders]

\* a variant that walks the holders from the largest total whatever the sign
\* of the need
fill_laas_for_descending(needed_quantity, laas, position_quantity, holders_of) ==
    LET contained_quantity ==
            sum_same_direction(quantities(laas, position_quantity), needed_quantity)
    IN IF Abs(contained_quantity) >= Abs(needed_quantity)
       THEN [laas |-> laas, contained_quantity |-> contained_quantity, k |-> 0,
             holders |-> <<>>]
       ELSE fill_loop(needed_quantity, laas, contained_quantity, holders_of, 0)

\* BankruptAccountContext.fill_laas_for: the list it returns, with the covered
\* quantity, the holders it walked and the number of them it looked at
fill_laas_for(needed_quantity, laas, position_quantity, holders_of) ==
    LET contained_quantity ==
            sum_same_direction(quantities(laas, position_quantity), needed_quantity)
    IN IF Abs(contained_quantity) >= Abs(needed_quantity)
       THEN [laas |-> laas, contained_quantity |-> contained_quantity, k |-> 0,
             holders |-> <<>>]
       ELSE fill_loop(needed_quantity, laas, contained_quantity,
                      IF needed_quantity < 0 THEN Reverse(holders_of) ELSE holders_of,
                      0)

\* a fill_laas_for call made on its own
Fill(needed_quantity, laas, position_quantity, holders_of) ==
    [needed_quantity |-> needed_quantity, laas |-> laas,
     position_quantity |-> position_quantity, holders_of |-> holders_of,
     applied |-> FALSE, result |-> <<>>, contained_quantity |-> 0, k |-> 0]
NoFill == Fill(0, <<>>, <<>>, <<>>)

Balances == {-2, -1, 0, 1, 2}
Needs == {-3, -1, 0, 2, 3}
WindowQuantities == {-2, 1}
\* AutSubquery.holders_of: every owner once, the largest total first
HolderLists ==
    UNION {{h \in [1..n -> {Holder(a, b) : a \in 1..MaxHolders, b \in Balances}] :
              /\ \A i, j \in 1..n : i < j =>
                     /\ h[i].account # h[j].account
                     /\ h[i].balance >= h[j].balance} : n \in 0..MaxHolders}
\* accounts of the trading window; account 0 holds nothing of the product
WindowLists == {<<>>, <<1>>, <<0>>, <<2, 1>>, <<0, 3>>}
Fills ==
    {Fill(n, w, q, h) : n \in Needs, h \in HolderLists,
        <<w, q>> \in UNION {{<<v, f>> : f \in [Members(v) -> WindowQuantities]} :
                              v \in WindowLists}}

\* ------------------------------------------------------- BankruptcyService
\* afp.bindings.PositionData, the fields read
PositionData(position_id, quantity) ==
    [position_id |-> position_id, quantity |-> quantity]
\* MarginAccount.positions and position_data: what the account holds
MarginPositions(account_id) ==
    IF account_id % 3 = 1 THEN <<PositionData("p1", 2), PositionData("p2", -3)>>
    ELSE IF account_id % 3 = 2 THEN <<PositionData("p2", 1)>>
    ELSE <<>>
\* AutSubquery.accounts_in_window over the 30 blocks before the last trade
TradeWindow(product_id) == IF product_id = "p1" THEN <<>> ELSE <<15>>
\* AutSubquery.holders_of
ProductHolders(product_id) ==
    IF product_id = "p1"
    THEN <<Holder(15, 3), Holder(16, 1), Holder(17, -2)>>
    ELSE <<Holder(16, 4), Holder(15, -1), Holder(17, -2)>>
\* MarginAccount.position_quantity of the accounts that may absorb
PositionQuantity(product_id) ==
    [a \in {15, 16, 17} |->
        (CHOOSE h \in Members(ProductHolders(product_id)) : h.account = a).balance]

\* the agent: the subquery's active accounts and their margin on chain, the
\* last call made and how it ended, the contexts bankrupt_accounts() returned,
\* the mutualization transactions sent, and where main() stands
BankruptcyState(mode, active, margin) ==
    [fill |-> NoFill, mode |-> mode, active |-> active, margin |-> margin,
     op |-> "init", outcome |-> "none", asked |-> <<>>, accounts |-> <<>>,
     sent |-> <<>>, pc |-> "start", k |-> 1, submitted_txs |-> <<>>]
Bankruptcy(fill) == [BankruptcyState("calls", <<>>, <<>>) EXCEPT !.fill = fill]
NoBankruptcy == Bankruptcy(NoFill)

\* BankruptAccountContext.__init__; loaded records that populate() ran
BankruptAccountContext(acct) ==
    [account_id |-> acct.account_id, collateral_asset |-> acct.collateral_asset,
     margin_account |-> acct.margin_account, positions |-> <<>>, loaded |-> FALSE]

\* a variant that takes an account with no equity left for a bankrupt one
mae_not_positive(mae) == mae <= 0
\* the first test of bankrupt_accounts
mae_negative(mae) == mae < 0

\* the loop of bankrupt_accounts over the active accounts from the i-th on
RECURSIVE bankrupt_loop(_, _, _, _, _)
bankrupt_loop(active, margin, i, asked, found) ==
    IF i > Len(active) THEN [accounts |-> found, asked |-> asked]
    ELSE LET id == active[i].account_id
             mae_asked == Append(asked, <<"mae", id>>)
         IN IF ~mae_negative(margin[i].mae)
            THEN bankrupt_loop(active, margin, i + 1, mae_asked, found)
            ELSE LET mmu_asked == Append(mae_asked, <<"mmu", id>>)
                 IN IF margin[i].mmu = 0
                    THEN bankrupt_loop(active, margin, i + 1, mmu_asked, found)
                    ELSE bankrupt_loop(active, margin, i + 1, mmu_asked,
                                       Append(found, BankruptAccountContext(active[i])))

\* BankruptcyService.bankrupt_accounts; stop names the call that fails
bankrupt_accounts(b, stop) ==
    IF stop = "subquery" \/ (stop = "provider" /\ b.active # <<>>)
    THEN [b EXCEPT !.op = "bankrupt_accounts", !.outcome = "raise",
                   !.asked = IF stop = "subquery" THEN <<>>
                             ELSE <<<<"mae", b.active[1].account_id>>>>]
    ELSE LET r == bankrupt_loop(b.active, b.margin, 1, <<>>, <<>>)
         IN [b EXCEPT !.op = "bankrupt_accounts", !.outcome = "return",
                      !.asked = r.asked, !.accounts = r.accounts]

\* BankruptAccountContext.populate on the context at place c
bankrupt_populate(b, c, stop) ==
    IF stop = "provider"
    THEN [b EXCEPT !.op = "populate", !.outcome = "raise"]
    ELSE [b EXCEPT !.op = "populate", !.outcome = "return",
                   !.accounts[c].positions = MarginPositions(b.accounts[c].account_id),
                   !.accounts[c].loaded = TRUE]

\* the loop of get_laas: one list for each position, in their order
laas_of(held) ==
    [i \in 1..Len(held) |->
        fill_laas_for(-held[i].quantity, TradeWindow(held[i].position_id),
                      PositionQuantity(held[i].position_id),
                      ProductHolders(held[i].position_id)).laas]

\* a variant that goes on with no positions
get_laas_unchecked(held) ==
    [outcome |-> "return", laas |-> laas_of(held)]
\* BankruptAccountContext.get_laas
get_laas(held) ==
    IF Len(held) = 0
    THEN [outcome |-> "raise", laas |-> <<>>]
    ELSE [outcome |-> "return", laas |-> laas_of(held)]

\* BankruptAccountContext.start_loss_mutualization on the context at place c
start_loss_mutualization(b, c, stop) ==
    LET ctx == b.accounts[c]
        product_ids == [i \in 1..Len(ctx.positions) |-> ctx.positions[i].position_id]
        laas == get_laas(ctx.positions)
    IN IF laas.outcome = "raise" \/ stop \in {"subquery", "transact"}
       THEN [b EXCEPT !.op = "start_loss_mutualization", !.outcome = "raise"]
       ELSE [b EXCEPT !.op = "start_loss_mutualization", !.outcome = "return",
                      !.sent = Append(b.sent,
                          [account_id |-> ctx.account_id,
                           collateral_asset |-> ctx.collateral_asset,
                           product_ids |-> product_ids, laas |-> laas.laas])]

\* main() of the bankruptcy agent: the scan
bankruptcy_main_scan(b, stop) ==
    LET r == bankrupt_accounts(b, stop)
    IN [r EXCEPT !.pc = IF r.outcome = "raise" THEN "aborted" ELSE "loop"]

\* main() of the bankruptcy agent: one turn of its loop over the contexts,
\* which it never populates
bankruptcy_main_turn(b, stop) ==
    LET r == start_loss_mutualization(b, b.k, stop)
    IN IF r.outcome = "raise" \/ stop = "receipt"
       THEN [r EXCEPT !.pc = "aborted", !.outcome = "raise"]
       ELSE [r EXCEPT !.k = b.k + 1,
                      !.submitted_txs = Append(b.submitted_txs, Len(r.sent))]

BankruptcyStops == {"none", "subquery", "provider"}
MutualizeStops == {"none", "subquery", "transact"}

Unchanged_but_bankruptcy ==
    UNCHANGED <<positions, is_liquidating, auction_data, collateral_decimals,
                assigned, transaction_steps, chain_positions, chain_liquidating,
                chain_auction, sent, last, bid_input, bid_output, wait_input,
                wait_output, main, service, runs, closeout>>

BankruptAccounts ==
    /\ bankruptcy.mode = "calls"
    /\ bankruptcy.op = "init"
    /\ \E stop \in BankruptcyStops :
           bankruptcy' = bankrupt_accounts(bankruptcy, stop)
    /\ Unchanged_but_bankruptcy

BankruptPopulate ==
    /\ bankruptcy.mode = "calls"
    /\ bankruptcy.accounts # <<>>
    /\ \E stop \in {"none", "provider"} :
           bankruptcy' = bankrupt_populate(bankruptcy, 1, stop)
    /\ Unchanged_but_bankruptcy

StartLossMutualization ==
    /\ bankruptcy.mode = "calls"
    /\ bankruptcy.accounts # <<>>
    /\ Len(bankruptcy.sent) < MaxMutualized
    /\ \E stop \in MutualizeStops :
           bankruptcy' = start_loss_mutualization(bankruptcy, 1, stop)
    /\ Unchanged_but_bankruptcy

BankruptcyMainScan ==
    /\ bankruptcy.mode = "main"
    /\ bankruptcy.pc = "start"
    /\ \E stop \in BankruptcyStops :
           bankruptcy' = bankruptcy_main_scan(bankruptcy, stop)
    /\ Unchanged_but_bankruptcy

BankruptcyMainTurn ==
    /\ bankruptcy.mode = "main"
    /\ bankruptcy.pc = "loop"
    /\ bankruptcy.k <= Len(bankruptcy.accounts)
    /\ \E stop \in MutualizeStops \cup {"receipt"} :
           bankruptcy' = bankruptcy_main_turn(bankruptcy, stop)
    /\ Unchanged_but_bankruptcy

\* main() past its loop: the notification and the return
BankruptcyMainEnd ==
    /\ bankruptcy.mode = "main"
    /\ bankruptcy.pc = "loop"
    /\ bankruptcy.k > Len(bankruptcy.accounts)
    /\ bankruptcy' = [bankruptcy EXCEPT !.pc = "done", !.op = "notify",
                                        !.outcome = "return"]
    /\ Unchanged_but_bankruptcy

\* the margin an active account can be found with
BankruptMargins ==
    {UserMarginAccountData(-1, 2), UserMarginAccountData(-1, 0),
     UserMarginAccountData(0, 2), UserMarginAccountData(1, 2)}
\* AutSubquery.active_accounts: distinct accounts, in the order of the list
ActiveLists ==
    UNION {{[i \in 1..n |-> Account(i, "c1")],
            [i \in 1..n |-> Account(n + 1 - i, IF i = 1 THEN "c2" ELSE "c1")]} :
              n \in 0..MaxActive}
Bankruptcies ==
    {BankruptcyState(mode, a, m) :
        mode \in {"calls", "main"},
        <<a, m>> \in UNION {{<<v, f>> : f \in [1..Len(v) -> BankruptMargins]} :
                              v \in ActiveLists}}
FillLaasFor ==
    /\ ~bankruptcy.fill.applied
    /\ LET f == bankruptcy.fill
           r == fill_laas_for(f.needed_quantity, f.laas, f.position_quantity,
                              f.holders_of)
       IN bankruptcy' = [bankruptcy EXCEPT
              !.fill = [f EXCEPT !.applied = TRUE, !.result = r.laas,
                                 !.contained_quantity = r.contained_quantity,
                                 !.k = r.k]]
    /\ Unchanged_but_bankruptcy

\* ---------------------------------------------------------- CloseoutService
\* subquery.model.ProductInfo with what the clearing contract answers for the
\* product: open_interest and get_fsp
ProductInfo(id, earliest_fsp_submission_time, tradeout_interval, open_interest, fsp, finalized) ==
    [id |-> id, earliest_fsp_submission_time |-> earliest_fsp_submission_time,
     tradeout_interval |-> tradeout_interval, open_interest |-> open_interest,
     fsp |-> fsp, finalized |-> finalized]
\* the timestamp of the latest block
Now == 10
\* AutSubquery.accounts_in_product
ProductAccounts(product_id) ==
    IF product_id = 1 THEN <<21, 22, 23>>
    ELSE IF product_id = 2 THEN <<21, 22>>
    ELSE IF product_id = 3 THEN <<>>
    ELSE <<22>>
\* MarginAccount.position_quantity of an account in a product
ProductBalance(product_id, account) ==
    IF product_id = 1 THEN (IF account = 21 THEN 2 ELSE IF account = 22 THEN 0 ELSE -2)
    ELSE IF product_id = 2 THEN (IF account = 21 THEN 2 ELSE -1)
    ELSE 0

\* the agent: the products the subquery lists and the chain's answers, the last
\* call and how it ended, the lookups made, the contexts closeable_products()
\* returned, the closeout transactions sent, and where main() stands
CloseoutState(mode, products) ==
    [mode |-> mode, products |-> products, op |-> "init", outcome |-> "none",
     error |-> "none", asked |-> <<>>, contexts |-> <<>>, sent |-> <<>>,
     pc |-> "start", k |-> 1, submitted_txs |-> <<>>]
NoCloseout == CloseoutState("calls", <<>>)

\* ClosingProductContext.__init__, which leaves accounts unassigned
ClosingProductContext(product_id) ==
    [product_id |-> product_id, accounts |-> <<>>, assigned |-> FALSE]

\* a variant that takes the interval for passed at the very timestamp it ends
tradeout_passed_or_now(product, now) ==
    product.earliest_fsp_submission_time + product.tradeout_interval <= now
\* the first test of closeable_products
tradeout_passed(product, now) ==
    product.earliest_fsp_submission_time + product.tradeout_interval < now

\* the loop of closeable_products over the products from the i-th on
RECURSIVE closeable_loop(_, _, _, _, _)
closeable_loop(products, now, i, asked, found) ==
    IF i > Len(products) THEN [contexts |-> found, asked |-> asked]
    ELSE LET product == products[i]
             oi_asked == Append(asked, <<"open_interest", product.id>>)
             fsp_asked == Append(oi_asked, <<"get_fsp", product.id>>)
         IN IF ~tradeout_passed(product, now)
            THEN closeable_loop(products, now, i + 1, asked, found)
            ELSE IF ~(product.open_interest > 0)
            THEN closeable_loop(products, now, i + 1, oi_asked, found)
            ELSE IF product.fsp = 0 \/ ~product.finalized
            THEN closeable_loop(products, now, i + 1, fsp_asked, found)
            ELSE closeable_loop(products, now, i + 1, fsp_asked,
                                Append(found, ClosingProductContext(product.id)))

\* CloseoutService.closeable_products; stop names the call that fails
closeable_products(c, stop) ==
    IF stop = "subquery"
    THEN [c EXCEPT !.op = "closeable_products", !.outcome = "raise",
                   !.error = "Exception"]
    ELSE LET r == closeable_loop(c.products, Now, 1, <<>>, <<>>)
         IN [c EXCEPT !.op = "closeable_products", !.outcome = "return",
                      !.error = "none", !.asked = r.asked, !.contexts = r.contexts]

\* the accounts of the list with a position that is not zero, in their order
RECURSIVE with_position(_, _)
with_position(product_id, accounts) ==
    IF accounts = <<>> THEN <<>>
    ELSE (IF ProductBalance(product_id, Head(accounts)) = 0 THEN <<>>
          ELSE <<Head(accounts)>>) \o with_position(product_id, Tail(accounts))
RECURSIVE total_quantity(_, _)
total_quantity(product_id, accounts) ==
    IF accounts = <<>> THEN 0
    ELSE ProductBalance(product_id, Head(accounts))
         + total_quantity(product_id, Tail(accounts))

\* ClosingProductContext.populate on the context at place x
closing_populate(c, x, stop) ==
    LET product_id == c.contexts[x].product_id
        listed == ProductAccounts(product_id)
        raised(error) == [c EXCEPT !.op = "populate", !.outcome = "raise",
                                   !.error = error,
                                   !.contexts[x].accounts = listed,
                                   !.contexts[x].assigned = TRUE]
    IN IF stop = "subquery"
       THEN [c EXCEPT !.op = "populate", !.outcome = "raise", !.error = "Exception"]
       ELSE IF Len(listed) = 0
       THEN [c EXCEPT !.op = "populate", !.outcome = "return", !.error = "none",
                      !.contexts[x].accounts = listed,
                      !.contexts[x].assigned = TRUE]
       ELSE IF stop = "provider" THEN raised("Exception")
       ELSE IF total_quantity(product_id, listed) # 0 THEN raised("RuntimeError")
       ELSE [c EXCEPT !.op = "populate", !.outcome = "return", !.error = "none",
                      !.contexts[x].accounts = with_position(product_id, listed),
                      !.contexts[x].assigned = TRUE]

\* ClosingProductContext.start_closeout on the context at place x
start_closeout(c, x, stop) ==
    LET ctx == c.contexts[x]
        raised(error) == [c EXCEPT !.op = "start_closeout", !.outcome = "raise",
                                   !.error = error]
    IN IF ~ctx.assigned THEN raised("AttributeError")
       ELSE IF Len(ctx.accounts) = 0 THEN raised("RuntimeError")
       ELSE IF stop = "transact" THEN raised("Exception")
       ELSE [c EXCEPT !.op = "start_closeout", !.outcome = "return",
                      !.error = "none",
                      !.sent = Append(c.sent, [product_id |-> ctx.product_id,
                                               accounts |-> ctx.accounts])]

\* main() of the closeout agent: the scan
closeout_main_scan(c, stop) ==
    LET r == closeable_products(c, stop)
    IN [r EXCEPT !.pc = IF r.outcome = "raise" THEN "aborted" ELSE "loop"]

\* main() of the closeout agent: one turn of its loop, for the product at k
closeout_main_turn(c, stop) ==
    LET populated == closing_populate(c, c.k, stop)
        started == start_closeout(populated, c.k, stop)
    IN IF populated.outcome = "raise" THEN [populated EXCEPT !.pc = "aborted"]
       ELSE IF started.outcome = "raise" THEN [started EXCEPT !.pc = "aborted"]
       ELSE IF stop = "receipt"
       THEN [started EXCEPT !.pc = "aborted", !.outcome = "raise",
                            !.error = "Exception"]
       ELSE [started EXCEPT !.k = c.k + 1,
                            !.submitted_txs = Append(c.submitted_txs, Len(started.sent))]

Unchanged_but_closeout ==
    UNCHANGED <<positions, is_liquidating, auction_data, collateral_decimals,
                assigned, transaction_steps, chain_positions, chain_liquidating,
                chain_auction, sent, last, bid_input, bid_output, wait_input,
                wait_output, main, service, runs, bankruptcy>>

CloseableProducts ==
    /\ closeout.mode = "calls"
    /\ closeout.op = "init"
    /\ \E stop \in {"none", "subquery"} :
           closeout' = closeable_products(closeout, stop)
    /\ Unchanged_but_closeout

ClosingPopulate ==
    /\ closeout.mode = "calls"
    /\ closeout.contexts # <<>>
    /\ \E stop \in {"none", "subquery", "provider"} :
           closeout' = closing_populate(closeout, 1, stop)
    /\ Unchanged_but_closeout

StartCloseout ==
    /\ closeout.mode = "calls"
    /\ closeout.contexts # <<>>
    /\ Len(closeout.sent) < MaxClosed
    /\ \E stop \in {"none", "transact"} :
           closeout' = start_closeout(closeout, 1, stop)
    /\ Unchanged_but_closeout

CloseoutMainScan ==
    /\ closeout.mode = "main"
    /\ closeout.pc = "start"
    /\ \E stop \in {"none", "subquery"} :
           closeout' = closeout_main_scan(closeout, stop)
    /\ Unchanged_but_closeout

CloseoutMainTurn ==
    /\ closeout.mode = "main"
    /\ closeout.pc = "loop"
    /\ closeout.k <= Len(closeout.contexts)
    /\ \E stop \in {"none", "subquery", "provider", "transact", "receipt"} :
           closeout' = closeout_main_turn(closeout, stop)
    /\ Unchanged_but_closeout

\* main() past its loop: the notification and the return
CloseoutMainEnd ==
    /\ closeout.mode = "main"
    /\ closeout.pc = "loop"
    /\ closeout.k > Len(closeout.contexts)
    /\ closeout' = [closeout EXCEPT !.pc = "done", !.op = "notify",
                                    !.outcome = "return", !.error = "none"]
    /\ Unchanged_but_closeout

\* what a listed product can be found with: closeable; its tradeout interval
\* ending now, or later; no open interest; no FSP; an FSP not finalized
ProductConditions ==
    {<<4, 3, 7, TRUE>>, <<5, 3, 7, TRUE>>, <<6, 3, 7, TRUE>>, <<4, 0, 7, TRUE>>,
     <<4, 3, 0, TRUE>>, <<4, 3, 7, FALSE>>}
ProductIds == 1..4
\* AutSubquery.products_with_fsp_passed: products whose earliest FSP
\* submission time, 5, is behind the latest block
ProductLists ==
    UNION {{[i \in 1..n |-> ProductInfo(ids[i], 5, f[i][1], f[i][2], f[i][3], f[i][4])] :
              ids \in {s \in [1..n -> ProductIds] : \A i, j \in 1..n : i < j => s[i] < s[j]},
              f \in [1..n -> ProductConditions]} : n \in 0..MaxProducts}
Closeouts == {CloseoutState(mode, l) : mode \in {"calls", "main"}, l \in ProductLists}

\* ------------------------------------------------------------ specifications
\* the context as __init__ leaves it
Fresh ==
    /\ positions = <<>>
    /\ transaction_steps = <<>>
    /\ is_liquidating = FALSE
    /\ auction_data = NoAuction
    /\ collateral_decimals = 0
    /\ assigned = {}
    /\ sent = <<>>
    /\ last = Call("init")

Init ==
    /\ Fresh
    /\ chain_positions \in ChainPositionLists
    /\ chain_liquidating \in BOOLEAN
    /\ chain_auction = IF chain_liquidating THEN AuctionData(1) ELSE NoAuction
    /\ bid_input = NoInput
    /\ bid_output = NotApplied
    /\ wait_input = NoWaitInput
    /\ wait_output = NotWaited
    /\ main = MainIdle
    /\ service = NoService
    /\ runs = NoRuns
    /\ bankruptcy = NoBankruptcy
    /\ closeout = NoCloseout

Next ==
    \/ Populate
    \/ StartLiquidation
    \/ BidLiquidation
    \/ WaitTimeFor
    \/ Restart
    \/ ChainAuctionEnds
    \/ ChainPositionCloses

Spec == Init /\ [][Next]_vars

\* construct_bids called on its own, on every list of positions of the bounds
InitBids ==
    /\ Fresh
    /\ chain_positions = <<>>
    /\ chain_liquidating = FALSE
    /\ chain_auction = NoAuction
    /\ bid_input \in ConstructInputs
    /\ bid_output = NotApplied
    /\ wait_input = NoWaitInput
    /\ wait_output = NotWaited
    /\ main = MainIdle
    /\ service = NoService
    /\ runs = NoRuns
    /\ bankruptcy = NoBankruptcy
    /\ closeout = NoCloseout

NextBids == Construct

SpecBids == InitBids /\ [][NextBids]_vars

\* the wait time computed on its own, on every input of the bounds
InitWait ==
    /\ Fresh
    /\ chain_positions = <<>>
    /\ chain_liquidating = FALSE
    /\ chain_auction = NoAuction
    /\ bid_input = NoInput
    /\ bid_output = NotApplied
    /\ wait_input \in WaitInputs
    /\ wait_output = NotWaited
    /\ main = MainIdle
    /\ service = NoService
    /\ runs = NoRuns
    /\ bankruptcy = NoBankruptcy
    /\ closeout = NoCloseout

NextWait == WaitTime

SpecWait == InitWait /\ [][NextWait]_vars

\* main(): the scan of the accounts liquidatable_accounts() returned
InitMain ==
    /\ Fresh
    /\ chain_positions \in MainChainPositionLists
    /\ chain_liquidating \in BOOLEAN
    /\ chain_auction = IF chain_liquidating THEN AuctionData(1) ELSE NoAuction
    /\ bid_input = NoInput
    /\ bid_output = NotApplied
    /\ wait_input = NoWaitInput
    /\ wait_output = NotWaited
    /\ \E n \in 0..MaxAccounts :
         main = IF n = 0 THEN Main("done", 0, 0) ELSE Main("populate", 1, n)
    /\ service = NoService
    /\ runs = NoRuns
    /\ bankruptcy = NoBankruptcy
    /\ closeout = NoCloseout

NextMain ==
    \/ MainPopulate
    \/ MainStartLiquidation
    \/ MainMaeCheck
    \/ MainWaitTimeFor
    \/ MainWaitForBlocks
    \/ MainPoll
    \/ ChainMinesBlock
    \/ MainBidLiquidation

SpecMain == InitMain /\ [][NextMain]_vars

\* the run of main() on a chain that keeps getting blocks, with reads of the
\* height that do not fail for ever
SpecMainFair ==
    SpecMain /\ WF_vars(MainPollRead) /\ WF_vars(ChainMinesBlock)

\* the calls of a context, run after run, with the bids the auction receives
NextRuns ==
    \/ Populate
    \/ StartLiquidation
    \/ RunBidLiquidation
    \/ RunRestart
    \/ RunAuctionEnds

SpecRuns == Init /\ [][NextRuns]_vars

\* a LiquidationService over every list of active accounts of the bounds
InitService ==
    /\ Fresh
    /\ chain_positions = <<>>
    /\ chain_liquidating = FALSE
    /\ chain_auction = NoAuction
    /\ bid_input = NoInput
    /\ bid_output = NotApplied
    /\ wait_input = NoWaitInput
    /\ wait_output = NotWaited
    /\ main = MainIdle
    /\ service \in Services
    /\ runs = NoRuns
    /\ bankruptcy = NoBankruptcy
    /\ closeout = NoCloseout

NextService ==
    \/ LiquidatableAccounts
    \/ AuctionConfigCall

SpecService == InitService /\ [][NextService]_vars

\* the bankruptcy agent: calls on its service and on the first context it
\* returned, and the run of its main()
InitBankruptcy ==
    /\ Fresh
    /\ chain_positions = <<>>
    /\ chain_liquidating = FALSE
    /\ chain_auction = NoAuction
    /\ bid_input = NoInput
    /\ bid_output = NotApplied
    /\ wait_input = NoWaitInput
    /\ wait_output = NotWaited
    /\ main = MainIdle
    /\ service = NoService
    /\ runs = NoRuns
    /\ bankruptcy \in Bankruptcies
    /\ closeout = NoCloseout

NextBankruptcy ==
    \/ BankruptAccounts
    \/ BankruptPopulate
    \/ StartLossMutualization
    \/ BankruptcyMainScan
    \/ BankruptcyMainTurn
    \/ BankruptcyMainEnd

SpecBankruptcy == InitBankruptcy /\ [][NextBankruptcy]_vars

\* the closeout agent: calls on its service and on the first context it
\* returned, and the run of its main()
InitCloseout ==
    /\ Fresh
    /\ chain_positions = <<>>
    /\ chain_liquidating = FALSE
    /\ chain_auction = NoAuction
    /\ bid_input = NoInput
    /\ bid_output = NotApplied
    /\ wait_input = NoWaitInput
    /\ wait_output = NotWaited
    /\ main = MainIdle
    /\ service = NoService
    /\ runs = NoRuns
    /\ bankruptcy = NoBankruptcy
    /\ closeout \in Closeouts

NextCloseout ==
    \/ CloseableProducts
    \/ ClosingPopulate
    \/ StartCloseout
    \/ CloseoutMainScan
    \/ CloseoutMainTurn
    \/ CloseoutMainEnd

SpecCloseout == InitCloseout /\ [][NextCloseout]_vars

\* fill_laas_for over every need, window and list of holders of the bounds
InitLaas ==
    /\ Fresh
    /\ chain_positions = <<>>
    /\ chain_liquidating = FALSE
    /\ chain_auction = NoAuction
    /\ bid_input = NoInput
    /\ bid_output = NotApplied
    /\ wait_input = NoWaitInput
    /\ wait_output = NotWaited
    /\ main = MainIdle
    /\ service = NoService
    /\ runs = NoRuns
    /\ bankruptcy \in {Bankruptcy(f) : f \in Fills}
    /\ closeout = NoCloseout

NextLaas == FillLaasFor

SpecLaas == InitLaas /\ [][NextLaas]_vars

\* ---------------------------------------------------------------- claims
Events == {last.events[i] : i \in 1..Len(last.events)}
EventsAfter == {last'.events[i] : i \in 1..Len(last'.events)}
Requests == {i \in 1..Len(sent) : sent[i].step = REQUEST_LIQUIDATION}
RequestSteps ==
    {i \in 1..Len(transaction_steps) : transaction_steps[i].step = REQUEST_LIQUIDATION}
IsPrefix(p, q) == Len(p) <= Len(q) /\ SubSeq(q, 1, Len(p)) = p
Returned(op, v) == last.op = op /\ last.outcome = "return" /\ last.ret = v

\* C1: one context sends at most one liquidation-request transaction in a
\* run, whatever the sequence of populate, start_liquidation and
\* bid_liquidation calls; a start_liquidation call made when a request has
\* already been sent sends nothing and, when it returns, returns
\* started = false.
C1_AtMostOneRequest ==
    /\ Cardinality(Requests) <= 1
    /\ (last.op = "start_liquidation"
          /\ \E i \in Requests : sent[i].tx_hash # last.tx_hash)
         => /\ last.tx_hash = 0
            /\ "submit" \notin Events
            /\ last.outcome = "return" => last.ret = FALSE

\* a second start_liquidation, after a first one whose receipt never came,
\* returns false on the recorded step alone
C1_Witness ==
    /\ Returned("start_liquidation", FALSE)
    /\ Requests # {}
    /\ ~is_liquidating

\* C2: when _check_bids computes dmae < 0 or dmmu < 0 the call ends in the
\* fatal RuntimeError, no transaction is sent and no step is recorded; with
\* both deltas >= 0 (zero included) _check_bids raises nothing.
C2_NegativeDeltaIsFatal ==
    [][(last'.op \in {"start_liquidation", "bid_liquidation"} /\ "compare" \in EventsAfter)
         => IF last'.dmae.n < 0 \/ last'.dmmu.n < 0
              THEN /\ last'.outcome = "raise"
                   /\ last'.error = "RuntimeError"
                   /\ sent' = sent
                   /\ transaction_steps' = transaction_steps
              ELSE last'.error # "RuntimeError"]_vars

C2_Witness ==
    /\ last.op = "bid_liquidation"
    /\ "compare" \in Events
    /\ last.dmae.n >= 0
    /\ last.dmmu.n < 0
    /\ last.outcome = "raise"

\* C3 (as claimed): after a populate() that returns, the positions list holds
\* exactly the positions the chain returned to that call, one Position each.
C3_PopulateReplaces ==
    Returned("populate", FALSE)
      => positions = [i \in 1..Len(chain_positions) |->
                        Loaded(chain_positions[i], TokenDecimals)]

C5_RecordAfterConfirm ==
    Returned("bid_liquidation", TRUE)
      => /\ last.events = <<"construct", "check", "compare", "submit", "confirm", "record">>
         /\ last.checked = last.submitted

\* C5 (amended): every bid transaction is sent right after a _check_bids run
\* on exactly the bids sent, which raised nothing; the step is recorded right
\* after the send and before the wait for the receipt, so the order is
\* validate, submit, record, confirm, return true, and a failed wait leaves the
\* BID_AUCTION step recorded.
C5_CheckThenSubmitThenRecord ==
    (last.op = "bid_liquidation" /\ "submit" \in Events)
      => /\ IsPrefix(<<"construct", "check", "compare", "submit", "record">>, last.events)
         /\ last.checked = last.submitted
         /\ last.submitted = last.bids
         /\ last.bids # NoBids
         /\ last.dmae.n >= 0
         /\ last.dmmu.n >= 0
         /\ is_transaction_submitted(transaction_steps, BID_AUCTION)
         /\ transaction_steps[Len(transaction_steps)] =
              TransactionStep(BID_AUCTION, last.tx_hash)
         /\ IF "confirm" \in Events
              THEN /\ Returned("bid_liquidation", TRUE)
                   /\ last.events[Len(last.events)] = "confirm"
              ELSE last.outcome = "raise"

C5_Witness == Returned("bid_liquidation", TRUE) /\ Len(last.submitted) = MaxPos

\* C6: start_liquidation on a context whose is_liquidating flag is true sends
\* no transaction and leaves transaction_steps, is_liquidating and the auction
\* data as they were; when it returns it returns started = false with the
\* deltas _check_bids computed.
C6_StartWhenLiquidating ==
    [][(last'.op = "start_liquidation" /\ "is_liquidating" \in assigned /\ is_liquidating)
         => /\ UNCHANGED <<sent, transaction_steps, is_liquidating, auction_data, assigned>>
            /\ last'.tx_hash = 0
            /\ last'.outcome = "return" => last'.ret = FALSE /\ "compare" \in EventsAfter]_vars

\* the flag alone, read from the chain by populate(), stops the call: nothing
\* has been sent or recorded in this run
C6_Witness ==
    /\ Returned("start_liquidation", FALSE)
    /\ is_liquidating
    /\ transaction_steps = <<>>
    /\ sent = <<>>

\* C7 (as claimed): when the wait for the request's receipt fails,
\* transaction_steps holds no REQUEST_LIQUIDATION step.
C7_NoStepWithoutReceipt ==
    (last.op = "start_liquidation" /\ "submit" \in Events /\ "confirm" \notin Events)
      => ~is_transaction_submitted(transaction_steps, REQUEST_LIQUIDATION)

\* C7 (amended): start_liquidation records the REQUEST_LIQUIDATION step right
\* after sending the request and before waiting for the receipt: the order is
\* submit, record, wait until confirmed, set is_liquidating, refresh the
\* auction data; when the wait fails the step stays recorded and is_liquidating
\* stays false.
C7_RecordBeforeReceipt ==
    (last.op = "start_liquidation" /\ "submit" \in Events)
      => /\ IsPrefix(<<"construct", "check", "compare", "submit", "record">>, last.events)
         /\ transaction_steps[Len(transaction_steps)] =
              TransactionStep(REQUEST_LIQUIDATION, last.tx_hash)
         /\ IF "confirm" \notin Events
              THEN last.outcome = "raise" /\ ~is_liquidating
              ELSE /\ last.events[Len(last.events)] = "confirm"
                   /\ is_liquidating
                   /\ last.outcome = "return"
                        => last.ret = TRUE /\ auction_data = chain_auction

C7_Witness ==
    /\ last.op = "start_liquidation"
    /\ last.outcome = "raise"
    /\ last.events[Len(last.events)] = "record"
    /\ is_transaction_submitted(transaction_steps, REQUEST_LIQUIDATION)

\* C8: when start_liquidation returns started = true the context is
\* liquidating, holds exactly one REQUEST_LIQUIDATION step, carrying the hash
\* of the transaction just sent, and its auction data is the chain's auction
\* snapshot as it stands after the confirmation.
C8_StartedState ==
    Returned("start_liquidation", TRUE)
      => /\ is_liquidating
         /\ {"is_liquidating", "auction_data"} \subseteq assigned
         /\ Cardinality(RequestSteps) = 1
         /\ \A i \in RequestSteps : transaction_steps[i].tx_hash = last.tx_hash
         /\ sent[Len(sent)] = [step |-> REQUEST_LIQUIDATION, tx_hash |-> last.tx_hash]
         /\ auction_data = chain_auction
         /\ chain_liquidating

C8_Witness == Returned("start_liquidation", TRUE) /\ auction_data = AuctionData(2)

C10_EmptyInEmptyOut ==
    (/\ bid_output.applied
     /\ bid_input.strategy.kind = PercentMAEKind
     /\ ValidPositions(bid_input.strategy, bid_input.positions) = <<>>)
      => bid_output.result.error = NoError /\ bid_output.result.bids = NoBids

\* blocks elapsed since the auction began, for a wait time computed on its own
WaitElapsed == wait_input.block - wait_input.auction.start_block

\* C11: wait_time_for returns 0, whatever dmae and dmmu are (dmmu = 0
\* included), whenever the current block minus the auction's start block is
\* strictly greater than the auction duration.
C11_ClosedWindowIsZero ==
    (wait_output.applied /\ WaitElapsed > wait_input.duration)
      => wait_output.result = Waited(NoError, 0)

\* the window has closed and dmmu is zero: the division is never reached
C11_Witness ==
    /\ wait_output.applied
    /\ WaitElapsed > wait_input.duration
    /\ RIsZero(wait_input.dmmu)
    /\ ~RIsZero(wait_input.dmae)
    /\ wait_output.result = Waited(NoError, 0)

\* dmae * auctionDuration * mmuAtInitiation / (dmmu * maeAtInitiation) as the
\* quotient of two integers
WaitNumerator ==
    wait_input.dmae.n * wait_input.duration * wait_input.auction.mmu_at_initiation
      * wait_input.dmmu.d
WaitDenominator ==
    wait_input.dmae.d * wait_input.dmmu.n * wait_input.auction.mae_at_initiation
\* t = ceil(n / d), d # 0: t - 1 < n / d <= t
IsCeil(t, n, d) ==
    IF d > 0 THEN (t - 1) * d < n /\ n <= t * d
             ELSE (t - 1) * d > n /\ n >= t * d
\* n / d <= e, d # 0
AtMost(n, d, e) == IF d > 0 THEN n <= e * d ELSE n >= e * d

C13_MissingAuctionDataError ==
    (last.op = "wait_time_for" /\ "auction_data" \notin assigned)
      => last.outcome = "raise" /\ last.error = "RuntimeError"

\* C14: in main(), wait_time_for with dmmu = 0 while the auction window is
\* open returns no wait time: it raises, main() is left, and nothing is sent
\* or recorded afterwards in the run, so no bid follows for the account.
C14_ZeroDmmuAborts ==
    /\ []((/\ last.op = "wait_time_for"
           /\ last.block > 0
           /\ last.block - auction_data.start_block <= AuctionDuration
           /\ RIsZero(last.args[2]))
            => /\ last.outcome = "raise"
               /\ last.error = "ArithmeticError"
               /\ main.pc = "aborted")
    /\ [][main.pc = "aborted" => UNCHANGED <<sent, transaction_steps, main>>]_vars

\* the request was sent by this run, the bids lower the MAE and leave the MMU
C14_Witness ==
    /\ last.op = "wait_time_for"
    /\ last.outcome = "raise"
    /\ last.error = "ArithmeticError"
    /\ last.args[1].n > 0
    /\ RIsZero(last.args[2])
    /\ main.pc = "aborted"
    /\ sent # <<>>

\* ---- a percent-of-equity construct_bids call, in the words of the claims
PercentApplied == bid_output.applied /\ bid_input.strategy.kind = PercentMAEKind
\* the positions the validator accepts
Accepted ==
    SelectSeq(bid_input.positions, LAMBDA p : p.position_id \in bid_input.strategy.listed)
AcceptedZeroMark == \E i \in 1..Len(Accepted) : Accepted[i].mark_price = 0
RECURSIVE RSum(_)
RSum(seq) == IF seq = <<>> THEN RInt(0) ELSE RAdd(Head(seq), RSum(Tail(seq)))
RLeq(a, b) == ~RLess(b, a)
IsLong(p) == p.quantity > 0
NotionalOf(p) == Rat(p.mark_price * Abs(p.quantity) * p.point_value.n,
                     p.point_value.d * Pow10(p.tick_size))
SumLong ==
    RSum([i \in 1..Len(Accepted) |->
            IF IsLong(Accepted[i]) THEN NotionalOf(Accepted[i]) ELSE RInt(0)])
SumShort ==
    RSum([i \in 1..Len(Accepted) |->
            IF IsLong(Accepted[i]) THEN RInt(0) ELSE NotionalOf(Accepted[i])])
\* initialEquity * percentMae
IntendedDmae == RMul(RInt(bid_input.mae_initial), bid_input.strategy.percent_mae)
\* initialEquity * percentMae / (sumLong + sumShort), the sum being nonzero
Discount == RDiv(IntendedDmae, RAdd(SumLong, SumShort))
Unclamped == ~RIsZero(RAdd(SumLong, SumShort)) /\ RLeq(Discount, RInt(1))
OverOne == ~RIsZero(RAdd(SumLong, SumShort)) /\ RLess(RInt(1), Discount)
\* the discount of each side: the common one, or 1 and the re-solved one
DiscountLong == IF OverOne THEN RInt(1) ELSE Discount
DiscountShort ==
    IF OverOne THEN RDiv(RSub(IntendedDmae, SumLong), SumShort) ELSE Discount
\* the price markPrice * (1 -/+ discount) before rounding
UnroundedPrice(p) ==
    IF IsLong(p) THEN RMul(RInt(p.mark_price), RSub(RInt(1), DiscountLong))
                 ELSE RMul(RInt(p.mark_price), RAdd(RInt(1), DiscountShort))
IsFloorOf(k, x) == RLeq(RInt(k), x) /\ RLess(x, RInt(k + 1))
IsCeilOf(k, x) == RLess(RInt(k - 1), x) /\ RLeq(x, RInt(k))
Bids == bid_output.result.bids
\* one bid per accepted position, in position order, for its full quantity
OneBidEach ==
    /\ Len(Bids) = Len(Accepted)
    /\ \A i \in 1..Len(Accepted) :
         /\ Bids[i].product_id = Accepted[i].position_id
         /\ Bids[i].quantity = Abs(Accepted[i].quantity)
         /\ Bids[i].side = IF IsLong(Accepted[i]) THEN "BID" ELSE "ASK"
\* the equity bid i removes, and what its unrounded price would remove
RemovedBy(i) ==
    LET p == Accepted[i]
        at_bid == Rat(Bids[i].price * Abs(p.quantity) * p.point_value.n,
                      p.point_value.d * Pow10(p.tick_size))
    IN IF IsLong(p) THEN RSub(NotionalOf(p), at_bid) ELSE RSub(at_bid, NotionalOf(p))
IntendedBy(i) ==
    RMul(NotionalOf(Accepted[i]),
         IF IsLong(Accepted[i]) THEN DiscountLong ELSE DiscountShort)
Removed == RSum([i \in 1..Len(Bids) |-> RemovedBy(i)])
\* one price tick of notional per position
TickOf(p) == Rat(Abs(p.quantity) * p.point_value.n, p.point_value.d * Pow10(p.tick_size))
Ticks == RSum([i \in 1..Len(Accepted) |-> TickOf(Accepted[i])])
\* the example: +10 at 100 and -5 at 200, initial equity 1000, percent 0.1
ExampleInput ==
    [strategy |-> Strategy(PercentMAEKind, Rat(1, 10), {1, 2}), mae_initial |-> 1000,
     positions |-> <<Position(1, 10, 100, 0, RInt(1)), Position(2, -5, 200, 0, RInt(1))>>]

C17_AggregateWithinTicks ==
    (PercentApplied /\ bid_output.result.ok)
      => /\ RLeq(RSub(Removed, IntendedDmae), Ticks)
         /\ RLeq(RSub(IntendedDmae, Removed), Ticks)

\* the rounding of two prices moves the aggregate off the target
C17_Witness ==
    /\ PercentApplied
    /\ bid_output.result.ok
    /\ Len(Bids) = 2
    /\ ~RIsZero(IntendedDmae)
    /\ Removed # IntendedDmae

C19_ErrorIffZeroMark ==
    PercentApplied => (bid_output.result.error # NoError <=> AcceptedZeroMark)

\* C19 (amended): the strategy raises the zero-mark-price RuntimeError, and
\* returns no bids, exactly when an accepted position has mark price 0; a zero
\* mark price on a rejected position raises nothing.  Its only other error is
\* the division by zero: no accepted position carries notional, or the
\* discount exceeds 1 and no accepted position is short.
C19_ZeroMarkError ==
    PercentApplied
      => /\ bid_output.result.error = "RuntimeError" <=> AcceptedZeroMark
         /\ bid_output.result.error # NoError => Bids = NoBids /\ ~bid_output.result.ok
         /\ bid_output.result.error \notin {NoError, "RuntimeError"}
              <=> /\ ~AcceptedZeroMark
                  /\ RIsZero(RAdd(SumLong, SumShort)) \/ (OverOne /\ RIsZero(SumShort))

\* a rejected position with mark price 0 next to an accepted one that is bid
C19_Witness ==
    /\ PercentApplied
    /\ bid_output.result.ok
    /\ Len(Bids) = 1
    /\ \E i \in 1..Len(bid_input.positions) :
         /\ bid_input.positions[i].mark_price = 0
         /\ bid_input.positions[i].position_id \notin bid_input.strategy.listed

\* C20: for the mark-price and the percent-of-equity strategy, the result
\* for a list of positions is the result for the same list with the rejected
\* positions taken out: they get no bid and change no sum, discount or bid.
C20_RejectedIgnored ==
    (bid_output.applied /\ bid_input.strategy.kind \in {MarkPriceKind, PercentMAEKind})
      => /\ bid_output.result =
              construct_bids(bid_input.strategy, bid_input.mae_initial, Accepted)
         /\ \A i \in 1..Len(Bids) : Bids[i].product_id \in bid_input.strategy.listed

\* a rejected position that carries notional next to an accepted one
C20_Witness ==
    /\ PercentApplied
    /\ bid_output.result.ok
    /\ Len(Bids) = 1
    /\ Len(bid_input.positions) = 2
    /\ \A i \in 1..2 : bid_input.positions[i].mark_price # 0

\* C21: when the discount exceeds 1 and no accepted position is short
\* (sumShort = 0), the percent-of-equity strategy ends in an error, the
\* division by zero, and returns no bids.
C21_ClampWithoutShorts ==
    (PercentApplied /\ ~AcceptedZeroMark /\ OverOne /\ RIsZero(SumShort))
      => /\ bid_output.result.error = "ArithmeticError"
         /\ ~bid_output.result.ok
         /\ Bids = NoBids

\* two accepted long positions whose notional is below the target
C21_Witness ==
    /\ PercentApplied
    /\ OverOne
    /\ RIsZero(SumShort)
    /\ Len(Accepted) = 2
    /\ \A i \in 1..2 : IsLong(Accepted[i])
    /\ bid_output.result.error = "ArithmeticError"
    /\ Bids = NoBids

\* C22: the mark-price strategy answers ok with exactly one bid per accepted
\* position, in position order, priced at the position's mark price, for the
\* absolute quantity, BID for a positive quantity and ASK otherwise.
C22_MarkPriceBids ==
    (bid_output.applied /\ bid_input.strategy.kind = MarkPriceKind)
      => /\ bid_output.result.ok
         /\ bid_output.result.error = NoError
         /\ OneBidEach
         /\ \A i \in 1..Len(Accepted) :
              Bids[i].price = Accepted[i].mark_price

\* a short and a long position, in that order, after a rejected one
C22_Witness ==
    /\ bid_output.applied
    /\ bid_input.strategy.kind = MarkPriceKind
    /\ Len(bid_input.positions) = MaxBidPos
    /\ Len(Bids) = MaxBidPos - 1
    /\ Bids[Len(Bids)].side = "ASK"
    /\ Bids[Len(Bids)].product_id = MaxBidPos

\* ------------------------------------------------- claims on the service
ServiceReturned == service.op = "liquidatable_accounts" /\ service.outcome = "return"
Active == service.active
Contexts == service.contexts
OfAccount(ctx, acct) ==
    /\ ctx.account_id = acct.account_id
    /\ ctx.collateral_asset = acct.collateral_asset
    /\ ctx.margin_account = acct.margin_account
Liquidatable(k) == service.margin[k].mae < service.margin[k].mmu

C24_ConfigFetchedOnce ==
    /\ [](/\ service.config_calls <= 1
          /\ (~service.cached => service.config_calls = 0)
          /\ (service.fetched =>
                /\ service.liquidation_duration = service.config.liquidation_duration
                /\ service.restoration_buffer
                     = Rat(service.config.restoration_buffer, 10000)
                /\ \/ service.op = "auction_config"
                   \/ \E k \in 1..Len(Active) : Liquidatable(k))
          /\ \A i \in 1..Len(Contexts) :
                /\ service.cached
                /\ Contexts[i].auction_duration = service.liquidation_duration
                /\ Contexts[i].restoration_buffer = service.restoration_buffer)
    /\ [][/\ service.cached =>
              /\ ~service'.fetched
              /\ service'.cached
              /\ service'.config_calls = service.config_calls
              /\ service'.liquidation_duration = service.liquidation_duration
              /\ service'.restoration_buffer = service.restoration_buffer
          /\ service'.fetched <=> (~service.cached /\ service'.cached)]_vars

\* a second call, at a time the contract would answer another pair
C24_Witness ==
    /\ service.op = "auction_config"
    /\ service.outcome = "return"
    /\ service.cached
    /\ ~service.fetched
    /\ service.config.liquidation_duration # service.liquidation_duration
    /\ service.restoration_buffer # Rat(service.config.restoration_buffer, 10000)

Lookups == service.lookups
\* the places (lookup, position) at which active account k is asked for
AskedAt(k) ==
    {jp \in (1..Len(Lookups)) \X (1..MAX_ACCOUNT_FETCH) :
       /\ jp[2] <= Len(Lookups[jp[1]].account_ids)
       /\ Lookups[jp[1]].collateral = Active[k].collateral_asset
       /\ Lookups[jp[1]].account_ids[jp[2]] = Active[k].account_id}
Looked == service.op = "liquidatable_accounts" /\ Lookups # <<>>

\* C25: every margin-data lookup carries at most MAX_ACCOUNT_FETCH account
\* ids, each the id of an active account of the lookup's collateral asset,
\* and every active account is asked for in exactly one place.
C25_BatchedLookups ==
    Looked =>
      /\ \A j \in 1..Len(Lookups) :
           /\ Len(Lookups[j].account_ids) <= MAX_ACCOUNT_FETCH
           /\ Len(Lookups[j].account_ids) >= 1
           /\ \A p \in 1..Len(Lookups[j].account_ids) :
                \E k \in 1..Len(Active) :
                  /\ Active[k].account_id = Lookups[j].account_ids[p]
                  /\ Active[k].collateral_asset = Lookups[j].collateral
      /\ \A k \in 1..Len(Active) : Cardinality(AskedAt(k)) = 1

\* two collateral assets, one of them over a full batch
C25_Witness ==
    /\ Looked
    /\ Len(Active) = 2 * MAX_ACCOUNT_FETCH + 1
    /\ Len(Lookups) = 3
    /\ Len(Lookups[1].account_ids) = MAX_ACCOUNT_FETCH
    /\ Lookups[2].collateral = Lookups[1].collateral
    /\ Len(Lookups[2].account_ids) < MAX_ACCOUNT_FETCH
    /\ Lookups[3].collateral # Lookups[1].collateral

\* the place of the account of a context in the active list
PlaceOf(ctx) == CHOOSE k \in 1..Len(Active) : OfAccount(ctx, Active[k])
\* the place at which a collateral asset first appears in the active list
FirstOf(collateral) ==
    CHOOSE k \in 1..Len(Active) :
      /\ Active[k].collateral_asset = collateral
      /\ \A j \in 1..(k - 1) : Active[j].collateral_asset # collateral

\* C26 as stated: two returned contexts stand in the order of their accounts
\* in the active list.
C26_DiscoveryOrder ==
    ServiceReturned =>
      LET place == [i \in 1..Len(Contexts) |-> PlaceOf(Contexts[i])]
      IN \A i, j \in 1..Len(Contexts) : i < j => place[i] < place[j]

\* C26: two returned contexts of one collateral asset stand in the order of
\* their accounts in the active list; contexts of different collateral assets
\* stand in the order in which their assets first appear in that list.
C26_GroupedOrder ==
    ServiceReturned =>
      LET place == [i \in 1..Len(Contexts) |-> PlaceOf(Contexts[i])]
          first == [i \in 1..Len(Contexts) |-> FirstOf(Contexts[i].collateral_asset)]
      IN \A i, j \in 1..Len(Contexts) :
           i < j =>
             IF Contexts[i].collateral_asset = Contexts[j].collateral_asset
               THEN place[i] < place[j]
               ELSE first[i] < first[j]

\* an account of another collateral asset between two of the first one
C26_Witness ==
    /\ ServiceReturned
    /\ Len(Active) = 3
    /\ Len(Contexts) = 3
    /\ Active[1].collateral_asset = Active[3].collateral_asset
    /\ Active[2].collateral_asset # Active[1].collateral_asset
    /\ OfAccount(Contexts[2], Active[3])
    /\ OfAccount(Contexts[3], Active[2])

\* ------------------------------------------------- claims on the run of main
RunLog == main.log
Submitted(i) == RunLog[i].event = "submit"
ConfirmedBetween(i, j) ==
    \E k \in (i + 1)..(j - 1) :
      /\ RunLog[k].event = "confirm"
      /\ RunLog[k].account = RunLog[i].account
      /\ RunLog[k].step = RunLog[i].step

\* C27: the loop takes the accounts one by one in list order; whenever a
\* transaction is submitted, every transaction submitted before it in the
\* run, for an earlier account or for the same one, has been confirmed, and
\* the bid of an account comes after the confirmed request of that account.
C27_OneAtATime ==
    /\ [](/\ \A i, j \in 1..Len(RunLog) : i < j => RunLog[i].account <= RunLog[j].account
          /\ \A i \in 1..Len(RunLog) : RunLog[i].account <= main.account
          /\ \A i, j \in 1..Len(RunLog) :
                (i < j /\ Submitted(i) /\ Submitted(j)) => ConfirmedBetween(i, j)
          /\ \A i, j \in 1..Len(RunLog) :
                (/\ Submitted(i) /\ Submitted(j)
                 /\ RunLog[i].account = RunLog[j].account
                 /\ RunLog[i].step = REQUEST_LIQUIDATION
                 /\ RunLog[j].step = BID_AUCTION) => i < j)
    /\ [][main'.account \in {main.account, main.account + 1}]_vars

\* request and bid of the first account confirmed, then those of the second
C27_Witness ==
    /\ main.account = 2
    /\ Len(RunLog) = 8
    /\ \A a \in 1..2 :
         /\ RunLog[4 * a - 3] = LogEntry(a, REQUEST_LIQUIDATION, "submit")
         /\ RunLog[4 * a - 2] = LogEntry(a, REQUEST_LIQUIDATION, "confirm")
         /\ RunLog[4 * a - 1] = LogEntry(a, BID_AUCTION, "submit")
         /\ RunLog[4 * a] = LogEntry(a, BID_AUCTION, "confirm")

CheckAnswered == last.op = "mae_check" /\ last.outcome = "return"
\* the step in which mae_check_on_bid answers with one of its two flags set
SkipStep ==
    /\ main.pc = "check"
    /\ last'.op = "mae_check"
    /\ Len(last'.args) = 2
    /\ last'.args[1] \/ last'.args[2]
SkippedAccounts ==
    {RunLog[i].account : i \in {k \in 1..Len(RunLog) : RunLog[k].event = "skip"}}

\* C28: when mae_check_on_bid answers mae_check_failed or
\* mae_over_mmu_exceeded, nothing is sent and nothing raised in that step,
\* the loop moves to the next account or ends, the steps the context has
\* recorded stay as they are, and the run submits no bid for that account.
C28_SkipOnFailedCheck ==
    /\ [][SkipStep =>
            /\ last'.outcome = "return"
            /\ sent' = sent
            /\ main'.log = Append(main.log, LogEntry(main.account, BID_AUCTION, "skip"))
            /\ IF main.account < main.accounts
                 THEN /\ main'.pc = "populate"
                      /\ main'.account = main.account + 1
                      /\ main'.recorded = Append(main.recorded, transaction_steps)
                 ELSE /\ main'.pc = "done"
                      /\ main'.recorded = main.recorded
                      /\ transaction_steps' = transaction_steps]_vars
    /\ [](\A i \in 1..Len(RunLog) :
            (RunLog[i].step = BID_AUCTION /\ Submitted(i))
              => RunLog[i].account \notin SkippedAccounts)
    /\ []((CheckAnswered /\ main.pc \in {"populate", "done"})
            <=> (CheckAnswered /\ (last.args[1] \/ last.args[2])))

\* the request of the first account was sent in this run, its bid skipped
C28_Witness ==
    /\ CheckAnswered
    /\ last.args = <<FALSE, TRUE>>
    /\ main.pc = "populate"
    /\ main.account = 2
    /\ Len(main.recorded) = 1
    /\ is_transaction_submitted(main.recorded[1], REQUEST_LIQUIDATION)
    /\ RunLog = <<LogEntry(1, REQUEST_LIQUIDATION, "submit"),
                  LogEntry(1, REQUEST_LIQUIDATION, "confirm"),
                  LogEntry(1, BID_AUCTION, "skip")>>

\* C29: an error raised while an account is processed ends main() there:
\* after it no step is taken, so nothing is sent for the accounts that follow.
C29_ErrorAbortsScan ==
    /\ [](last.outcome = "raise" <=> main.pc = "aborted")
    /\ [][main.pc = "aborted" => UNCHANGED vars]_vars
    /\ [][(last'.outcome = "raise" /\ main.pc # "aborted") =>
            /\ main'.account = main.account
            /\ \A i \in 1..Len(main'.log) : main'.log[i].account <= main.account]_vars

\* the first of several accounts has a position whose mark price is zero
C29_Witness ==
    /\ main.pc = "aborted"
    /\ main.account = 1
    /\ main.accounts > 1
    /\ last.op = "start_liquidation"
    /\ last.error = "RuntimeError"
    /\ ~last.constructed
    /\ \E i \in 1..Len(positions) : positions[i].mark_price = 0
    /\ sent = <<>>

\* ------------------------------------------------- claims on restarts
\* a call of bid_liquidation that meets neither early return, builds bids
\* and is not stopped by a failure
BidGoesThrough ==
    /\ last'.op = "bid_liquidation"
    /\ last'.outcome = "return"
    /\ "is_liquidating" \in assigned
    /\ is_liquidating
    /\ ~is_transaction_submitted(transaction_steps, BID_AUCTION)
    /\ Len(last'.bids) > 0

\* C30: a restart leaves the auction on chain and the bids it has received
\* as they are and gives the account a context without any recorded step;
\* bid_liquidation on a context that is liquidating and has no BID_AUCTION
\* step sends a bid whatever bids the auction has received before.  Within
\* one run the auction receives at most one bid.
C30_MarkerLostOnRestart ==
    /\ [][last'.op = "restart" =>
            /\ transaction_steps' = <<>>
            /\ assigned' = {}
            /\ chain_liquidating' = chain_liquidating
            /\ chain_auction' = chain_auction
            /\ runs'.auction_bids = runs.auction_bids
            /\ runs'.run = runs.run + 1]_vars
    /\ [][BidGoesThrough =>
            /\ sent' = Append(sent, [step |-> BID_AUCTION, tx_hash |-> Len(sent) + 1])
            /\ is_transaction_submitted(transaction_steps', BID_AUCTION)
            /\ chain_liquidating =>
                 runs'.auction_bids = Append(runs.auction_bids, runs.run)]_vars
    /\ [](\A i, j \in 1..Len(runs.auction_bids) :
            i < j => runs.auction_bids[i] < runs.auction_bids[j])

\* the second run has sent a bid to the auction the first run had bid on
C30_Witness ==
    /\ runs = Runs(2, <<1, 2>>)
    /\ chain_liquidating
    /\ last.op = "bid_liquidation"
    /\ last.outcome = "return"
    /\ sent = <<[step |-> BID_AUCTION, tx_hash |-> 1]>>
    /\ is_transaction_submitted(transaction_steps, BID_AUCTION)

\* ------------------------------------------------- claims on the checks and steps
HasEvent(e) == \E i \in 1..Len(last.events) : last.events[i] = e
Simulated == HasEvent("compare")

\* C33: when _check_bids has run its simulation, it was given one settlement
\* per bid, in bid order, with the bid's position id and price and the
\* quantity negated for a BID and kept for an ASK, and the mark prices of the
\* same position ids in the same order.
C33_SettlementPerBid ==
    Simulated =>
      /\ Len(last.settlements) = Len(last.checked)
      /\ Len(last.valued) = Len(last.checked)
      /\ \A i \in 1..Len(last.checked) :
           /\ last.settlements[i].position_id = last.checked[i].product_id
           /\ last.settlements[i].price = last.checked[i].price
           /\ last.checked[i].side = "BID" =>
                last.settlements[i].quantity = -last.checked[i].quantity
           /\ last.checked[i].side = "ASK" =>
                last.settlements[i].quantity = last.checked[i].quantity
           /\ last.checked[i].side \in {"BID", "ASK"}
           /\ last.valued[i] = last.checked[i].product_id

\* a BID and an ASK checked together
C33_Witness ==
    /\ Simulated
    /\ Len(last.checked) = 2
    /\ last.checked[1].side = "BID"
    /\ last.checked[2].side = "ASK"
    /\ last.settlements[1].quantity < 0
    /\ last.settlements[2].quantity > 0

\* the equity bid i takes from the account, by Position.dmae
EffectOf(i) ==
    LET p == Accepted[i]
        at_mark == NotionalOf(p)
        at_price == Rat(Bids[i].price * Abs(p.quantity) * p.point_value.n,
                        p.point_value.d * Pow10(p.tick_size))
    IN IF IsLong(p) THEN RSub(at_mark, at_price) ELSE RSub(at_price, at_mark)

\* C35: with mae_initial >= 0 and percent_mae >= 0 every bid of the percent
\* strategy has a price >= 0, a BID is priced at most at the mark price of
\* its position and an ASK at least at it, and the equity effect of each bid
\* is >= 0.
C35_BidsNeverAddEquity ==
    (/\ PercentApplied
     /\ bid_input.mae_initial >= 0
     /\ bid_input.strategy.percent_mae.n >= 0
     /\ bid_output.result.ok)
      => /\ Len(Bids) = Len(Accepted)
         /\ \A i \in 1..Len(Bids) :
              /\ Bids[i].price >= 0
              /\ Bids[i].side = "BID" => Bids[i].price <= Accepted[i].mark_price
              /\ Bids[i].side = "ASK" => Bids[i].price >= Accepted[i].mark_price
              /\ EffectOf(i).n >= 0

\* a long bid under its mark and a short bid over its mark
C35_Witness ==
    /\ PercentApplied
    /\ bid_input.mae_initial > 0
    /\ Len(Bids) = 2
    /\ Bids[1].side = "BID"
    /\ Bids[1].price > 0
    /\ Bids[1].price < Accepted[1].mark_price
    /\ Bids[2].side = "ASK"
    /\ Bids[2].price > Accepted[2].mark_price
    /\ EffectOf(1).n > 0
    /\ EffectOf(2).n > 0

CountStep(steps, step) == Cardinality({i \in 1..Len(steps) : steps[i].step = step})
StepKinds == {REQUEST_LIQUIDATION, BID_AUCTION}

\* C36: transaction_steps holds at most one step of each kind; it holds the
\* transactions the run has sent, each recorded with its hash whether or not
\* its receipt arrived; and once a step of a kind is recorded no call of the
\* same run sends a transaction of that kind.
C36_OneStepOfEachKind ==
    /\ [](/\ \A k \in StepKinds : CountStep(transaction_steps, k) <= 1
          /\ transaction_steps = sent)
    /\ [][\A k \in StepKinds :
            (is_transaction_submitted(transaction_steps, k) /\ last'.op # "restart")
              => CountStep(sent', k) = CountStep(sent, k)]_vars

\* the wait for the receipt of the bid has failed
C36_Witness ==
    /\ last.op = "bid_liquidation"
    /\ last.outcome = "raise"
    /\ HasEvent("submit")
    /\ ~HasEvent("confirm")
    /\ CountStep(transaction_steps, BID_AUCTION) = 1
    /\ CountStep(transaction_steps, REQUEST_LIQUIDATION) = 1

\* C37: a BID_AUCTION step is recorded only by a call made on a context whose
\* is_liquidating is true, and leaves it true; within a run is_liquidating
\* goes from true to false only in a populate() call.
C37_LifecycleForward ==
    /\ [][(CountStep(transaction_steps', BID_AUCTION)
             > CountStep(transaction_steps, BID_AUCTION))
           => /\ "is_liquidating" \in assigned
              /\ is_liquidating
              /\ is_liquidating'
              /\ last'.op = "bid_liquidation"]_vars
    /\ [][(/\ "is_liquidating" \in assigned
           /\ is_liquidating
           /\ ~is_liquidating'
           /\ last'.op # "restart")
           => last'.op = "populate"]_vars

\* populate() has found the auction over after the bid was sent
C37_Witness ==
    /\ last.op = "populate"
    /\ last.outcome = "return"
    /\ "is_liquidating" \in assigned
    /\ ~is_liquidating
    /\ CountStep(transaction_steps, BID_AUCTION) = 1

\* ------------------------------------------------- claims on the bankruptcy agent
FillDone == bankruptcy.fill.applied
FillNeed == bankruptcy.fill.needed_quantity
Window == bankruptcy.fill.laas
Filled == bankruptcy.fill.result
Added == SubSeq(Filled, Len(Window) + 1, Len(Filled))
HoldersOf == bankruptcy.fill.holders_of
HolderAccounts == {HoldersOf[i].account : i \in 1..Len(HoldersOf)}
BalanceOf(a) == (CHOOSE h \in Members(HoldersOf) : h.account = a).balance
\* the total of the amounts, listed as <<place, amount>>, that have the sign
\* of the need
RECURSIVE SumToward(_)
SumToward(S) ==
    IF S = {} THEN 0
    ELSE LET x == CHOOSE y \in S : TRUE
         IN (IF x[2] * FillNeed > 0 THEN Abs(x[2]) ELSE 0) + SumToward(S \ {x})
Covered ==
    SumToward({<<i, bankruptcy.fill.position_quantity[Window[i]]>> :
                  i \in 1..Len(Window)})
    + SumToward({<<Len(Window) + i, BalanceOf(Added[i])>> : i \in 1..Len(Added)})
\* a holder the loop may add: not in the list already, not on the other side
Eligible(h) == h.account \notin Members(Window) /\ ~(h.balance * FillNeed < 0)

\* C39: fill_laas_for ends after looking at each holder at most once and
\* returns the accounts it was given followed by added holders; an added
\* holder was not in the list and is added once; none has a total of the sign
\* opposite to the need; the added holders come largest first in the needed
\* direction, ahead of every holder left out; and on return the quantity
\* covered reaches |needed_quantity| or every holder is in the list or on the
\* other side.
C39_FillLaas ==
    FillDone =>
        /\ bankruptcy.fill.k <= Len(HoldersOf)
        /\ Len(Filled) >= Len(Window)
        /\ SubSeq(Filled, 1, Len(Window)) = Window
        /\ \A i \in 1..Len(Added) :
               /\ Added[i] \in HolderAccounts
               /\ Added[i] \notin Members(Window)
               /\ \A j \in 1..Len(Added) : j # i => Added[j] # Added[i]
               /\ ~(BalanceOf(Added[i]) * FillNeed < 0)
               /\ \A j \in 1..Len(Added) :
                      i < j => Abs(BalanceOf(Added[i])) >= Abs(BalanceOf(Added[j]))
               /\ \A h \in Members(HoldersOf) :
                      Eligible(h) /\ h.account \notin Members(Added)
                          => Abs(BalanceOf(Added[i])) >= Abs(h.balance)
        /\ \/ Covered >= Abs(FillNeed)
           \/ \A h \in Members(HoldersOf) :
                  h.account \in Members(Filled) \/ h.balance * FillNeed < 0
        /\ bankruptcy.fill.contained_quantity * FillNeed >= 0
        /\ Abs(bankruptcy.fill.contained_quantity) = Covered

\* a short position to offset: the window did not cover it, two holders were
\* added from the most negative on, and a larger-total holder was left out as
\* being on the other side
C39_Witness ==
    /\ FillDone
    /\ FillNeed < 0
    /\ Len(Window) > 0
    /\ Len(Added) = 2
    /\ BalanceOf(Added[1]) < BalanceOf(Added[2])
    /\ \E h \in Members(HoldersOf) : h.balance > 0 /\ h.account \notin Members(Filled)
    /\ Covered >= Abs(FillNeed)

BankruptScanned == bankruptcy.op = "bankrupt_accounts" /\ bankruptcy.outcome = "return"
\* the place in the active accounts of the account of the j-th context
BankruptPlace(j) ==
    CHOOSE i \in 0..Len(bankruptcy.active) :
        \/ i = 0 /\ \A n \in 1..Len(bankruptcy.active) :
               bankruptcy.active[n].account_id # bankruptcy.accounts[j].account_id
        \/ i > 0 /\ bankruptcy.active[i].account_id = bankruptcy.accounts[j].account_id

\* C31: bankrupt_accounts() returns a context for an active account exactly
\* when its mae is below zero and its mmu is not zero; a context carries the
\* id, collateral asset and margin account of its account; contexts come in
\* the order of the active accounts; with no active account the list is empty.
C31_ContextIffBankrupt ==
    BankruptScanned =>
        /\ \A j \in 1..Len(bankruptcy.accounts) :
               /\ BankruptPlace(j) > 0
               /\ bankruptcy.accounts[j].account_id
                      = bankruptcy.active[BankruptPlace(j)].account_id
               /\ bankruptcy.accounts[j].collateral_asset
                      = bankruptcy.active[BankruptPlace(j)].collateral_asset
               /\ bankruptcy.accounts[j].margin_account
                      = bankruptcy.active[BankruptPlace(j)].margin_account
               /\ \A n \in 1..Len(bankruptcy.accounts) :
                      j < n => BankruptPlace(j) < BankruptPlace(n)
        /\ \A i \in 1..Len(bankruptcy.active) :
               (\E j \in 1..Len(bankruptcy.accounts) : BankruptPlace(j) = i)
                   <=> (bankruptcy.margin[i].mae < 0 /\ bankruptcy.margin[i].mmu # 0)
        /\ bankruptcy.active = <<>> => bankruptcy.accounts = <<>>

\* three active accounts listed from the highest id down; the one in the
\* middle has negative equity but no margin in use and is left out, the two
\* around it are returned in the order of the list, under two collaterals
C31_Witness ==
    /\ BankruptScanned
    /\ Len(bankruptcy.active) = 3
    /\ bankruptcy.active[1].account_id = 3
    /\ bankruptcy.margin[2].mae < 0
    /\ bankruptcy.margin[2].mmu = 0
    /\ Len(bankruptcy.accounts) = 2
    /\ bankruptcy.accounts[1].account_id = 3
    /\ bankruptcy.accounts[1].collateral_asset # bankruptcy.accounts[2].collateral_asset

\* the context a start_loss_mutualization call is made on
Mutualized ==
    bankruptcy.accounts[IF bankruptcy.mode = "main" THEN bankruptcy.k ELSE 1]
StartedMutualization ==
    /\ bankruptcy' # bankruptcy
    /\ bankruptcy'.op = "start_loss_mutualization"
    /\ bankruptcy.accounts # <<>>
LastMutualization == bankruptcy'.sent[Len(bankruptcy'.sent)]
\* the loss-absorbing accounts of one position, from its product's trading
\* window and holders
AbsorbersOf(position) ==
    fill_laas_for(-position.quantity, TradeWindow(position.position_id),
                  PositionQuantity(position.position_id),
                  ProductHolders(position.position_id)).laas

\* C38: a mutualization transaction is sent only by a start_loss_mutualization
\* call that returns, on a context whose positions populate() has loaded and
\* that has at least one; it names the products of the positions in their
\* order with, for each, the list of loss-absorbing accounts of that position.
\* On a context with no positions the call raises and nothing is sent.
\* Positions are there only once populate() has loaded them, and main(),
\* which loads none, sends nothing.
C38_MutualizeOnlyLoaded ==
    /\ [](\A c \in 1..Len(bankruptcy.accounts) :
              bankruptcy.accounts[c].positions # <<>> => bankruptcy.accounts[c].loaded)
    /\ [](bankruptcy.mode = "main" => bankruptcy.sent = <<>>)
    /\ [][bankruptcy'.sent # bankruptcy.sent =>
            /\ StartedMutualization
            /\ bankruptcy'.outcome = "return"
            /\ Len(bankruptcy'.sent) = Len(bankruptcy.sent) + 1
            /\ SubSeq(bankruptcy'.sent, 1, Len(bankruptcy.sent)) = bankruptcy.sent
            /\ Mutualized.loaded
            /\ Mutualized.positions # <<>>
            /\ LastMutualization.account_id = Mutualized.account_id
            /\ LastMutualization.collateral_asset = Mutualized.collateral_asset
            /\ Len(LastMutualization.product_ids) = Len(Mutualized.positions)
            /\ Len(LastMutualization.laas) = Len(Mutualized.positions)
            /\ \A i \in 1..Len(Mutualized.positions) :
                   /\ LastMutualization.product_ids[i] = Mutualized.positions[i].position_id
                   /\ LastMutualization.laas[i] = AbsorbersOf(Mutualized.positions[i])]_vars
    /\ [][StartedMutualization /\ Mutualized.positions = <<>> =>
            /\ bankruptcy'.outcome = "raise"
            /\ bankruptcy'.sent = bankruptcy.sent]_vars

\* a populated context with two positions sent a transaction naming both
\* products, each with its own list of loss-absorbing accounts
C38_Witness ==
    /\ bankruptcy.op = "start_loss_mutualization"
    /\ bankruptcy.outcome = "return"
    /\ bankruptcy.accounts[1].loaded
    /\ Len(bankruptcy.accounts[1].positions) = 2
    /\ Len(bankruptcy.sent) = 1
    /\ bankruptcy.sent[1].product_ids = <<"p1", "p2">>
    /\ Len(bankruptcy.sent[1].laas) = 2
    /\ bankruptcy.sent[1].laas[1] # bankruptcy.sent[1].laas[2]

\* main() reached a bankrupt account, whose context it had not populated:
\* the call raised, main() stopped there, and nothing was sent
C38_MainAborts ==
    /\ bankruptcy.mode = "main"
    /\ bankruptcy.pc = "aborted"
    /\ bankruptcy.op = "start_loss_mutualization"
    /\ bankruptcy.accounts # <<>>
    /\ ~bankruptcy.accounts[1].loaded
    /\ bankruptcy.sent = <<>>

\* ------------------------------------------------- claims on the closeout agent
CloseableReturned ==
    closeout.op = "closeable_products" /\ closeout.outcome = "return"
Listed == closeout.products
ContextIds == {closeout.contexts[j].product_id : j \in 1..Len(closeout.contexts)}
LookedUp == {closeout.asked[n] : n \in 1..Len(closeout.asked)}
IntervalPassed(product) ==
    product.earliest_fsp_submission_time + product.tradeout_interval < Now

\* C32: closeable_products() returns a context for a listed product exactly
\* when its earliest FSP submission time plus its tradeout interval is below
\* the timestamp of the latest block, its open interest is above zero, and its
\* FSP is not zero and is finalized; for a product whose interval has not
\* passed neither the open interest nor the FSP is looked up.
C32_ContextIffCloseable ==
    CloseableReturned =>
        /\ ContextIds \subseteq {Listed[i].id : i \in 1..Len(Listed)}
        /\ \A i \in 1..Len(Listed) :
               /\ Listed[i].id \in ContextIds
                      <=> /\ IntervalPassed(Listed[i])
                          /\ Listed[i].open_interest > 0
                          /\ Listed[i].fsp # 0
                          /\ Listed[i].finalized
               /\ ~IntervalPassed(Listed[i]) =>
                      /\ <<"open_interest", Listed[i].id>> \notin LookedUp
                      /\ <<"get_fsp", Listed[i].id>> \notin LookedUp

\* two products with open interest and a finalized FSP: the interval of the
\* first ends at the very timestamp of the latest block, so it is passed over
\* with no lookup; the second is returned after both lookups
C32_Witness ==
    /\ CloseableReturned
    /\ Len(Listed) = 2
    /\ Listed[1].earliest_fsp_submission_time + Listed[1].tradeout_interval = Now
    /\ Listed[1].open_interest > 0 /\ Listed[1].fsp # 0 /\ Listed[1].finalized
    /\ ContextIds = {Listed[2].id}
    /\ LookedUp = {<<"open_interest", Listed[2].id>>, <<"get_fsp", Listed[2].id>>}

LastCloseout == closeout'.sent[Len(closeout'.sent)]
\* the accounts the subquery lists for the product whose position on chain is
\* not zero, and the total of their positions
Holding(product_id) ==
    {a \in Members(ProductAccounts(product_id)) : ProductBalance(product_id, a) # 0}
RECURSIVE TotalOf(_, _)
TotalOf(product_id, S) ==
    IF S = {} THEN 0
    ELSE LET a == CHOOSE x \in S : TRUE
         IN ProductBalance(product_id, a) + TotalOf(product_id, S \ {a})
\* what a closeout transaction must be sent for, and with
CloseoutBalanced ==
    closeout'.sent # closeout.sent =>
        /\ closeout'.op = "start_closeout"
        /\ Len(closeout'.sent) = Len(closeout.sent) + 1
        /\ Holding(LastCloseout.product_id) # {}
        /\ TotalOf(LastCloseout.product_id, Holding(LastCloseout.product_id)) = 0
        /\ Members(LastCloseout.accounts) = Holding(LastCloseout.product_id)

\* C40: a closeout transaction is sent for a product only when some account
\* listed for it has a position that is not zero and those positions add up
\* to zero, and it names exactly the accounts with such a position; a
\* start_closeout call on a context with no accounts raises and sends nothing.
C40_CloseoutOnlyBalanced ==
    /\ [][CloseoutBalanced]_vars
    /\ [][/\ closeout' # closeout
          /\ closeout'.op = "start_closeout"
          /\ closeout.mode = "calls"
          /\ closeout.contexts # <<>>
          /\ closeout.contexts[1].accounts = <<>>
          => closeout'.outcome = "raise" /\ closeout'.sent = closeout.sent]_vars

\* the same within the run of main(), which stops at the product whose
\* populate() raised
C40_InMain == [][closeout.mode = "main" => CloseoutBalanced]_vars

\* a transaction was sent for a product whose positions do not add up to zero
C40_SentUnbalanced ==
    \E n \in 1..Len(closeout.sent) :
        TotalOf(closeout.sent[n].product_id, Holding(closeout.sent[n].product_id)) # 0
\* main() sent a transaction for a balanced product, naming the two accounts
\* with a position and not the one without
C40_MainSent ==
    /\ closeout.mode = "main"
    /\ Len(closeout.sent) = 1
    /\ closeout.sent[1].accounts = <<21, 23>>

\* ------------------------------------------------- claims on the wait of main()
BidSent == sent' # sent /\ last'.op = "bid_liquidation"

\* a bid is sent only from the end of a wait whose target was the height read
\* at its start plus the blocks wait_time_for returned plus one
BidOnlyAfterWait ==
    /\ [](main.pc = "sleep" =>
              last.op = "wait_time_for" /\ main.blocks_to_wait = last.blocks)
    /\ [](main.pc = "poll" =>
              main.target_block = main.start_block + main.blocks_to_wait + 1)
    /\ [][BidSent =>
            /\ main.pc = "bid"
            /\ main.current_block >= main.start_block + main.blocks_to_wait + 1
            /\ main.height >= main.current_block]_vars
\* a read that fails in the loop leaves main() waiting for the same target
LoopReadRetried ==
    [][main.pc = "poll" /\ main'.read_failed /\ ~main.read_failed =>
         /\ main'.pc = "poll"
         /\ main'.target_block = main.target_block
         /\ UNCHANGED <<sent, transaction_steps, last>>]_vars
\* a wait that has its target ends
WaitEnds == main.pc = "poll" ~> main.pc = "bid"

\* C34, as stated: a bid transaction is sent only once the chain has reached
\* the height read when the wait began plus the blocks wait_time_for returned
\* plus one; on a chain that keeps getting blocks the wait ends; and no
\* failed read of the height aborts wait_for_blocks.
C34_EveryReadRetried ==
    /\ BidOnlyAfterWait
    /\ LoopReadRetried
    /\ WaitEnds
    /\ [][last'.op = "wait_for_blocks" => last'.outcome # "raise"]_vars

\* C34, amended: a bid transaction is sent only once the chain has reached
\* the height read when the wait began plus the blocks wait_time_for returned
\* plus one; a read of the height that fails inside the polling loop leaves
\* main() waiting for the same target, while a failure of the first read,
\* the one that gives the starting height, raises and ends main(); and on a
\* chain that keeps getting blocks, with reads that do not fail for ever,
\* every wait that has its target ends.
C34_BidAfterWait ==
    /\ BidOnlyAfterWait
    /\ LoopReadRetried
    /\ WaitEnds
    /\ [][last'.op = "wait_for_blocks" /\ last'.outcome = "raise" =>
            /\ main.pc = "sleep"
            /\ main'.pc = "aborted"
            /\ UNCHANGED <<sent, transaction_steps>>]_vars

\* the last account's bid was sent after a wait of more than one block in
\* which a read of the height failed and the chain went one block past the
\* target before main() saw it
C34_Witness ==
    /\ main.pc = "done"
    /\ last.op = "bid_liquidation"
    /\ HasEvent("submit")
    /\ main.blocks_to_wait >= 1
    /\ main.read_failed
    /\ main.current_block = main.target_block + 1
====
